---- MODULE Spec2Model ----
(***************************************************************************)
(* nsqlookupd: the registration store (RegistrationDB), the TCP protocol   *)
(* engine (LookupProtocolV1) and the HTTP query/admin handlers.            *)
(*                                                                         *)
(* Strings that the code inspects character by character (topic and        *)
(* channel names, the "*" wildcard, the "#ephemeral" suffix) are tuples of *)
(* one-character strings; strings that are only compared (categories,     *)
(* command words, error codes) are TLA+ strings.                           *)
(***************************************************************************)
EXTENDS Integers, Sequences, FiniteSets, TLC

(***************************************************************************)
(* Bounds of the model.                                                    *)
(***************************************************************************)
\* connections accepted over one run (one handler goroutine each)
NumConns == 2
\* HTTP requests served over one run (one handler goroutine each)
NumHttp == 1
\* command lines read over one run, all connections together: beside HTTP
\* requests (Spec) and with the TCP engine alone (SpecTcp)
MaxCmds == 3
MaxCmdsTcp == 5
\* goroutines that call one store operation each (SpecLock)
NumWorkers == 3
\* the clock stops here
MaxTime == 2
\* command lines and further HTTP requests over one run of SpecTime
MaxCmdsTime == 3
\* temporary Accept() failures over one run (SpecExit)
MaxAcceptErrors == 2
\* admin actions sent on the notifications channel over one run (SpecAdmin)
MaxActions == 3

\* opts.InactiveProducerTimeout and opts.TombstoneLifetime, in clock ticks
InactiveProducerTimeout == 1
TombstoneLifetime == 1

\* a nil *PeerInfo
NULL == [nil |-> TRUE]

(***************************************************************************)
(* Names.                                                                  *)
(***************************************************************************)
Empty == << >>
Star == <<"*">>
EphemeralSuffix == <<"#", "e", "p", "h", "e", "m", "e", "r", "a", "l">>

T1 == <<"t">>
T2 == <<"u">>
Ch1 == <<"c">>
ChE == <<"c">> \o EphemeralSuffix
BadName == <<"!">>

\* strings.HasSuffix
HasSuffix(s, suffix) ==
    /\ Len(s) >= Len(suffix)
    /\ SubSeq(s, Len(s) - Len(suffix) + 1, Len(s)) = suffix

MaxNameLen == 64
NameChars ==
    {".", "_", "-", "0", "1", "2", "3", "4", "5", "6", "7", "8", "9",
     "a", "b", "c", "d", "e", "f", "g", "h", "i", "j", "k", "l", "m",
     "n", "o", "p", "q", "r", "s", "t", "u", "v", "w", "x", "y", "z",
     "A", "B", "C", "D", "E", "F", "G", "H", "I", "J", "K", "L", "M",
     "N", "O", "P", "Q", "R", "S", "T", "U", "V", "W", "X", "Y", "Z"}

\* a non-empty string of at most MaxNameLen characters, all of [.a-zA-Z0-9_-]
IsValidTopicName(name) ==
    /\ Len(name) >= 1
    /\ Len(name) <= MaxNameLen
    /\ \A i \in 1..Len(name) : name[i] \in NameChars

\* as a topic name, with an optional "#ephemeral" suffix
IsValidChannelName(name) ==
    /\ Len(name) >= 1
    /\ Len(name) <= MaxNameLen
    /\ LET base == IF HasSuffix(name, EphemeralSuffix)
                   THEN SubSeq(name, 1, Len(name) - Len(EphemeralSuffix))
                   ELSE name
       IN  /\ Len(base) >= 1
           /\ \A i \in 1..Len(base) : base[i] \in NameChars

(***************************************************************************)
(* Registrations and producers.                                            *)
(***************************************************************************)
Registration(category, key, subkey) ==
    [Category |-> category, Key |-> key, SubKey |-> subkey]

ClientKey == Registration("client", Empty, Empty)
TopicKey(topic) == Registration("topic", topic, Empty)
ChannelKey(topic, channel) == Registration("channel", topic, channel)

Conns == 1..NumConns
Https == 1..NumHttp
Workers == 1..NumWorkers

\* remote addresses (host:port); the id of a producer
Addr(port) == [host |-> "10.0.0.1", port |-> port]
NoAddr == [host |-> "", port |-> 0]

VARIABLES
    registrationMap,  \* RegistrationDB.registrationMap: Registration -> Producers
    peerInfo,         \* per connection: client.peerInfo (NULL or a PeerInfo)
    remoteAddr,       \* per connection: conn.RemoteAddr().String()
    pc,               \* per connection: where its IOLoop goroutine stands
    cmd,              \* per connection: the command being executed
    regs,             \* per connection: the Registrations a loop still ranges over
    reply,            \* per connection: what the goroutine's latest step wrote to the socket
    now,              \* time.Now()
    hpc,              \* per HTTP goroutine: where its handler stands
    hreq,             \* per HTTP goroutine: the request
    hregs,            \* per HTTP goroutine: the Registrations a loop ranges over
    hprods,           \* per HTTP goroutine: the *Producer pointers a loop still ranges over
    hresp,            \* per HTTP goroutine: the response its latest step wrote
    hnodes,           \* per HTTP goroutine: the locals of doNodes
    mu,               \* RegistrationDB's sync.RWMutex: the writer and the readers inside
    ops,              \* per store-operation goroutine: the operation and where it stands
    lookupd,          \* the NSQLookupd: its listeners, its waitGroup, its accept loops, Exit
    marked,           \* history: the latest /topic/tombstone mark of each producer and topic
    nsqadmin,         \* the NSQAdmin: its notifications channel, its notification loop, Exit
    ncmds             \* command lines and further requests the run may still read

vars == <<registrationMap, peerInfo, remoteAddr, pc, cmd, regs, reply, now,
          hpc, hreq, hregs, hresp, hprods, hnodes, mu, ops, lookupd, marked, nsqadmin, ncmds>>

lockVars == <<mu, ops>>

tcpVars == <<peerInfo, remoteAddr, pc, cmd, regs, reply>>
httpCtl == <<hpc, hreq, hregs, hresp>>
httpVars == <<hpc, hreq, hregs, hresp, hprods>>

\* &Producer{peerInfo: client.peerInfo}: the PeerInfo pointer is the connection
NewProducer(c) == [peer |-> c, tombstoned |-> FALSE, tombstonedAt |-> 0]

\* producer.peerInfo.id: set from the connection's remote address when the
\* PeerInfo is built, unexported and never written again
ProducerId(p) == remoteAddr[p.peer]

Keys(m) == DOMAIN m

\* the ids listed under key k of map m
IdsUnder(m, k) ==
    IF k \in DOMAIN m THEN {ProducerId(m[k][i]) : i \in 1..Len(m[k])} ELSE {}

\* the connections whose producer has an entry under key k
PeersUnder(m, k) ==
    IF k \in DOMAIN m THEN {m[k][i].peer : i \in 1..Len(m[k])} ELSE {}

\* a *Producer handed out by the store: the object that key k lists for the
\* PeerInfo of connection c (a key lists at most one object per PeerInfo)
Pointer(k, c) == [key |-> k, peer |-> c]
Index(m, ptr) == CHOOSE i \in 1..Len(m[ptr.key]) : m[ptr.key][i].peer = ptr.peer
Deref(m, ptr) == m[ptr.key][Index(m, ptr)]

\* RemoveProducer and RemoveRegistration drop objects from the map; a pointer
\* to a dropped object reaches nothing the store will ever show again, and a
\* later REGISTER lists a new object, so such pointers are forgotten
Prune(pp, m) == SelectSeq(pp, LAMBDA ptr : ptr.peer \in PeersUnder(m, ptr.key))

\* doNodes reads the tombstone state of the producers it collected after it
\* has left the store: an object that is dropped from map m keeps the state it
\* had, and the pointer is replaced by the object
IsObject(x) == "tombstoned" \in DOMAIN x
Freeze(pp, m, after) ==
    [i \in 1..Len(pp) |->
        IF IsObject(pp[i]) \/ pp[i].peer \in PeersUnder(after, pp[i].key)
        THEN pp[i]
        ELSE [key |-> pp[i].key, peer |-> pp[i].peer,
              tombstoned |-> Deref(m, pp[i]).tombstoned,
              tombstonedAt |-> Deref(m, pp[i]).tombstonedAt]]
Load(m, x) == IF IsObject(x) THEN x ELSE Deref(m, x)
Detach ==
    hprods' = [h \in Https |->
                  IF hpc[h] = "nodes_producers"
                  THEN Freeze(hprods[h], registrationMap, registrationMap')
                  ELSE Prune(hprods[h], registrationMap')]

\* no admin action
NoAction == "(none)"

\* the NSQAdmin after New and Main: the channel made and open, the HTTP server
\* and handleAdminActions wrapped in the waitGroup, the loop waiting on the
\* channel; sent and posted are the history of the actions received from the
\* channel and of the iterations completed, logged counts the errors logged
Admin ==
    [notifications |-> "open", httpListener |-> "listening",
     waitGroup |-> {"Serve", "handleAdminActions"},
     pc |-> "range", action |-> NoAction,
     sent |-> << >>, posted |-> << >>, logged |-> 0, exit |-> "none"]

\* the NSQLookupd after Main: both listeners listen, the waitGroup holds the two
\* accept loops, no temporary Accept() failure has been logged, and Exit has
\* not been called
Serving ==
    [tcpListener |-> "listening", httpListener |-> "listening",
     waitGroup |-> {"TCPServer", "Serve"},
     temporary |-> 0,
     exit |-> "none"]

\* the RWMutex with nobody inside, and a goroutine that has not called the store
Unlocked == [writer |-> 0, readers |-> {}]
NoOp == [name |-> "", pc |-> "idle", key |-> Registration("", Empty, Empty), peer |-> 0,
         seen |-> << >>]

(***************************************************************************)
(* RegistrationDB.  Every operation runs under the store's lock, so each   *)
(* is one atomic step; the operators give the map after the operation and  *)
(* its results.                                                            *)
(***************************************************************************)
MapPut(m, k, v) == [x \in DOMAIN m \cup {k} |-> IF x = k THEN v ELSE m[x]]

\* an AddRegistration that assigns an empty list whether the key exists or not
AddRegistrationResets(m, k) == MapPut(m, k, << >>)

AddRegistration(m, k) == IF k \in DOMAIN m THEN m ELSE MapPut(m, k, << >>)

\* the loop of AddProducer: is a producer with this id already under k
AddProducerFound(m, k, p) ==
    /\ k \in DOMAIN m
    /\ \E i \in 1..Len(m[k]) : ProducerId(m[k][i]) = ProducerId(p)

\* an AddProducer that appends without looking for the id
AddProducerAlwaysAppend(m, k, p) ==
    MapPut(m, k, (IF k \in DOMAIN m THEN m[k] ELSE << >>) \o <<p>>)

AddProducer(m, k, p) ==
    IF AddProducerFound(m, k, p)
    THEN m
    ELSE MapPut(m, k, (IF k \in DOMAIN m THEN m[k] ELSE << >>) \o <<p>>)

\* the list without the entries of this id, in order
RECURSIVE Cleaned(_, _)
Cleaned(producers, id) ==
    IF producers = << >> THEN << >>
    ELSE IF ProducerId(Head(producers)) # id
         THEN <<Head(producers)>> \o Cleaned(Tail(producers), id)
         ELSE Cleaned(Tail(producers), id)

\* a RemoveProducer that drops the key with its last producer
RemoveProducerDropsEmpty(m, k, id) ==
    IF k \notin DOMAIN m THEN m
    ELSE IF Cleaned(m[k], id) = << >> THEN [x \in DOMAIN m \ {k} |-> m[x]]
    ELSE MapPut(m, k, Cleaned(m[k], id))

\* a RemoveProducer that leaves an empty list under a key that was missing
RemoveProducerCreatesKey(m, k, id) ==
    MapPut(m, k, IF k \in DOMAIN m THEN Cleaned(m[k], id) ELSE << >>)

RemoveProducer(m, k, id) ==
    IF k \notin DOMAIN m THEN m ELSE MapPut(m, k, Cleaned(m[k], id))

RemoveProducerRemoved(m, k, id) ==
    /\ k \in DOMAIN m
    /\ \E i \in 1..Len(m[k]) : ProducerId(m[k][i]) = id

RemoveProducerLeft(m, k, id) ==
    IF k \notin DOMAIN m THEN 0 ELSE Len(Cleaned(m[k], id))

\* a RemoveRegistration that empties the list and keeps the key
RemoveRegistrationKeepsKey(m, k) ==
    IF k \in DOMAIN m THEN MapPut(m, k, << >>) ELSE m

RemoveRegistration(m, k) == [x \in DOMAIN m \ {k} |-> m[x]]

needFilter(key, subkey) == key = Star \/ subkey = Star

IsMatch(k, category, key, subkey) ==
    /\ category = k.Category
    /\ (key = Star \/ k.Key = key)
    /\ (subkey = Star \/ k.SubKey = subkey)

\* the result as a set: the code ranges over a Go map, in no fixed order
\* a FindRegistrations without the wildcard scan
FindRegistrationsExact(m, category, key, subkey) ==
    IF Registration(category, key, subkey) \in DOMAIN m
    THEN {Registration(category, key, subkey)}
    ELSE {}

FindRegistrations(m, category, key, subkey) ==
    IF ~needFilter(key, subkey)
    THEN IF Registration(category, key, subkey) \in DOMAIN m
         THEN {Registration(category, key, subkey)}
         ELSE {}
    ELSE {k \in DOMAIN m : IsMatch(k, category, key, subkey)}

\* a reverse lookup that scans the "client" category only
LookupRegistrationsClientOnly(m, id) ==
    {k \in DOMAIN m : k.Category = "client"
                       /\ \E i \in 1..Len(m[k]) : ProducerId(m[k][i]) = id}

LookupRegistrations(m, id) ==
    {k \in DOMAIN m : \E i \in 1..Len(m[k]) : ProducerId(m[k][i]) = id}

(***************************************************************************)
(* The TCP protocol engine: one IOLoop goroutine per accepted connection.  *)
(***************************************************************************)
NoCmd == [name |-> "", params |-> << >>]

\* what a client can send as one line, split at spaces
Names == {T1, T2, Ch1, ChE, BadName}
CmdLines ==
    {[name |-> n, params |-> << >>] : n \in {"PING", "IDENTIFY", "REGISTER", "UNREGISTER", "FOO"}}
    \cup {[name |-> n, params |-> <<t>>] : n \in {"REGISTER", "UNREGISTER"}, t \in {T1, T2, BadName}}
    \cup {[name |-> n, params |-> <<t, ch>>] :
             n \in {"REGISTER", "UNREGISTER"}, t \in {T1}, ch \in {Ch1, ChE, BadName}}

\* what follows an IDENTIFY line: the frame may end early, may announce a
\* negative length (the size is an int32), may not be JSON
GoodBody ==
    [kind |-> "json", BroadcastAddress |-> "p1", Hostname |-> "h1",
     TCPPort |-> 4150, HTTPPort |-> 4151, Version |-> "1.0"]
IdentifyBodies ==
    {[kind |-> "no_size"], [kind |-> "negative_size"], [kind |-> "short_body"],
     [kind |-> "bad_json"],
     GoodBody,
     [GoodBody EXCEPT !.BroadcastAddress = ""],
     [GoodBody EXCEPT !.TCPPort = 0],
     [GoodBody EXCEPT !.HTTPPort = 0],
     [GoodBody EXCEPT !.Version = ""]}

FatalClientErr(code, desc) == [code |-> code, desc |-> desc]
NoReply == [code |-> "", desc |-> ""]
OK == [code |-> "OK", desc |-> ""]
IdentifyResponse == [code |-> "JSON", desc |-> "tcp_port http_port version broadcast_address hostname"]

\* the connection is open: its goroutine is inside the read loop
Open(c) == pc[c] \in {"read", "reg_topic", "unreg_rmreg", "unreg_loop"}

\* the error of getTopicChan, or NoReply when the names are accepted
getTopicChanErr(params) ==
    IF Len(params) = 0
    THEN FatalClientErr("E_INVALID", "insufficient number of params")
    ELSE IF ~IsValidTopicName(params[1])
    THEN FatalClientErr("E_BAD_TOPIC", "topic name is not valid")
    ELSE IF Len(params) >= 2 /\ params[2] # Empty /\ ~IsValidChannelName(params[2])
    THEN FatalClientErr("E_BAD_CHANNEL", "channel name is not valid")
    ELSE NoReply

topicOf(params) == params[1]
channelOf(params) == IF Len(params) >= 2 THEN params[2] ELSE Empty

\* the addresses connections came from so far, and the next one never seen
UsedAddrs == {remoteAddr[d] : d \in {d \in Conns : pc[d] # "none"}}
FreshAddr == Addr(Cardinality(UsedAddrs) + 1)

\* listener.Accept() hands a new connection to a fresh goroutine; the remote
\* address is that of no connection that is still open: an address not seen
\* before, or the address of a connection that was closed
Accept(c, a) ==
    /\ pc[c] = "none"
    /\ \A d \in Conns : d < c => pc[d] # "none"
    /\ a \in UsedAddrs \cup {FreshAddr}
    /\ \A d \in Conns : Open(d) => remoteAddr[d] # a
    /\ pc' = [pc EXCEPT ![c] = "read"]
    /\ remoteAddr' = [remoteAddr EXCEPT ![c] = a]
    /\ reply' = [reply EXCEPT ![c] = NoReply]
    /\ UNCHANGED <<registrationMap, peerInfo, cmd, regs, now, lookupd, marked, nsqadmin, hnodes, lockVars, httpVars, ncmds>>

\* reader.ReadString fails (EOF, I/O error): break, then conn.Close()
ReadError(c) ==
    /\ pc[c] = "read"
    /\ pc' = [pc EXCEPT ![c] = "closed"]
    /\ reply' = [reply EXCEPT ![c] = NoReply]
    /\ UNCHANGED <<registrationMap, peerInfo, remoteAddr, cmd, regs, now, lookupd, marked, nsqadmin, hnodes, lockVars, httpVars, ncmds>>

\* an IOLoop that goes on reading after an error
FatalKeepsOpen(c, err) ==
    /\ reply' = [reply EXCEPT ![c] = err]
    /\ pc' = [pc EXCEPT ![c] = "read"]
    /\ cmd' = [cmd EXCEPT ![c] = NoCmd]

\* IOLoop after Exec returned an error: SendResponse(err), break, conn.Close()
Fatal(c, err) ==
    /\ reply' = [reply EXCEPT ![c] = err]
    /\ pc' = [pc EXCEPT ![c] = "closed"]
    /\ cmd' = [cmd EXCEPT ![c] = NoCmd]

\* IOLoop after Exec returned a response: SendResponse, which may fail
Respond(c, response, sendOk) ==
    /\ reply' = [reply EXCEPT ![c] = response]
    /\ pc' = [pc EXCEPT ![c] = IF sendOk THEN "read" ELSE "closed"]
    /\ cmd' = [cmd EXCEPT ![c] = NoCmd]

\* Exec: a line that is none of the four commands
InvalidCommand(c, line) ==
    /\ pc[c] = "read"
    /\ ncmds > 0
    /\ ncmds' = ncmds - 1
    /\ line.name \notin {"PING", "IDENTIFY", "REGISTER", "UNREGISTER"}
    /\ Fatal(c, FatalClientErr("E_INVALID", "invalid command"))
    /\ UNCHANGED <<registrationMap, peerInfo, remoteAddr, regs, now, lookupd, marked, nsqadmin, hnodes, lockVars, httpVars>>

\* a PING that leaves lastUpdate as it was
PingKeepsLastUpdate(c, line, sendOk) ==
    /\ pc[c] = "read"
    /\ ncmds > 0
    /\ ncmds' = ncmds - 1
    /\ line.name = "PING"
    /\ Respond(c, OK, sendOk)
    /\ UNCHANGED <<registrationMap, peerInfo, remoteAddr, regs, now, lookupd, marked, nsqadmin, hnodes, lockVars, httpVars>>

PING(c, line, sendOk) ==
    /\ pc[c] = "read"
    /\ ncmds > 0
    /\ ncmds' = ncmds - 1
    /\ line.name = "PING"
    /\ peerInfo' = IF peerInfo[c] # NULL
                   THEN [peerInfo EXCEPT ![c].lastUpdate = now]
                   ELSE peerInfo
    /\ Respond(c, OK, sendOk)
    /\ UNCHANGED <<registrationMap, remoteAddr, regs, now, lookupd, marked, nsqadmin, hnodes, lockVars, httpVars>>

\* the error IDENTIFY returns for this body, or NoReply
IdentifyErr(c, body) ==
    IF peerInfo[c] # NULL
    THEN FatalClientErr("E_INVALID", "cannot IDENTIFY again")
    ELSE IF body.kind = "no_size"
    THEN FatalClientErr("E_BAD_BODY", "IDENTIFY failed to read body size")
    ELSE IF body.kind = "short_body"
    THEN FatalClientErr("E_BAD_BODY", "IDENTIFY failed to read body")
    ELSE IF body.kind \in {"bad_json", "zero_size"}
    THEN FatalClientErr("E_BAD_BODY", "IDENTIFY failed to decode JSON body")
    ELSE IF body.BroadcastAddress = "" \/ body.TCPPort = 0
            \/ body.HTTPPort = 0 \/ body.Version = ""
    THEN FatalClientErr("E_BAD_BODY", "IDENTIFY missing fields")
    ELSE NoReply

NewPeerInfo(c, body) ==
    [id |-> remoteAddr[c], RemoteAddress |-> remoteAddr[c],
     Hostname |-> body.Hostname, BroadcastAddress |-> body.BroadcastAddress,
     TCPPort |-> body.TCPPort, HTTPPort |-> body.HTTPPort,
     Version |-> body.Version, lastUpdate |-> now]

\* a panic in a goroutine that nothing recovers ends the process, and every
\* goroutine with it
Panic(c) ==
    /\ pc' = [d \in Conns |-> "panic"]
    /\ hpc' = [h \in Https |-> "panic"]
    /\ reply' = [reply EXCEPT ![c] = NoReply]
    /\ UNCHANGED <<cmd, hreq, hregs, hresp, hprods>>

\* make([]byte, bodyLen) panics when the size read from the frame is negative
IDENTIFY(c, line, body, sendOk) ==
    /\ pc[c] = "read"
    /\ ncmds > 0
    /\ ncmds' = ncmds - 1
    /\ line.name = "IDENTIFY"
    /\ IF peerInfo[c] = NULL /\ body.kind = "negative_size"
       THEN /\ Panic(c)
            /\ UNCHANGED <<registrationMap, peerInfo>>
       ELSE IF IdentifyErr(c, body) # NoReply
       THEN /\ Fatal(c, IdentifyErr(c, body))
            /\ UNCHANGED <<registrationMap, peerInfo, httpVars>>
       ELSE /\ peerInfo' = [peerInfo EXCEPT ![c] = NewPeerInfo(c, body)]
            /\ registrationMap' = AddProducer(registrationMap, ClientKey, NewProducer(c))
            /\ Respond(c, IdentifyResponse, sendOk)
            /\ UNCHANGED httpVars
    /\ UNCHANGED <<remoteAddr, regs, now, lookupd, marked, nsqadmin, hnodes, lockVars>>

\* the error REGISTER and UNREGISTER return before touching the store
RegisterErr(c, params) ==
    IF peerInfo[c] = NULL
    THEN FatalClientErr("E_INVALID", "client must IDENTIFY")
    ELSE getTopicChanErr(params)

\* a REGISTER that also stores the time in the PeerInfo, as PING does
RegisterStoresLastUpdate(c, line, sendOk) ==
    /\ pc[c] = "read"
    /\ ncmds > 0
    /\ ncmds' = ncmds - 1
    /\ line.name = "REGISTER"
    /\ IF RegisterErr(c, line.params) # NoReply
       THEN /\ Fatal(c, RegisterErr(c, line.params))
            /\ UNCHANGED <<registrationMap, peerInfo>>
       ELSE /\ registrationMap' =
                   AddProducer(registrationMap, TopicKey(topicOf(line.params)), NewProducer(c))
            /\ peerInfo' = [peerInfo EXCEPT ![c].lastUpdate = now]
            /\ Respond(c, OK, sendOk)
    /\ UNCHANGED <<remoteAddr, regs, now, lookupd, marked, nsqadmin, hnodes, lockVars, httpVars>>

\* REGISTER up to its first AddProducer
REGISTER(c, line, sendOk) ==
    /\ pc[c] = "read"
    /\ ncmds > 0
    /\ ncmds' = ncmds - 1
    /\ line.name = "REGISTER"
    /\ IF RegisterErr(c, line.params) # NoReply
       THEN /\ Fatal(c, RegisterErr(c, line.params))
            /\ UNCHANGED registrationMap
       ELSE IF channelOf(line.params) # Empty
       THEN /\ registrationMap' =
                   AddProducer(registrationMap,
                               ChannelKey(topicOf(line.params), channelOf(line.params)),
                               NewProducer(c))
            /\ pc' = [pc EXCEPT ![c] = "reg_topic"]
            /\ cmd' = [cmd EXCEPT ![c] = line]
            /\ reply' = [reply EXCEPT ![c] = NoReply]
       ELSE /\ registrationMap' =
                   AddProducer(registrationMap, TopicKey(topicOf(line.params)), NewProducer(c))
            /\ Respond(c, OK, sendOk)
    /\ UNCHANGED <<peerInfo, remoteAddr, regs, now, lookupd, marked, nsqadmin, hnodes, lockVars, httpVars>>

\* a REGISTER with a channel that leaves the topic key alone
RegisterTopicSkipped(c, sendOk) ==
    /\ pc[c] = "reg_topic"
    /\ Respond(c, OK, sendOk)
    /\ UNCHANGED <<registrationMap, peerInfo, remoteAddr, regs, now, lookupd, marked, nsqadmin, hnodes, lockVars, httpVars, ncmds>>

\* REGISTER with a channel: the AddProducer under the topic key, and the reply
RegisterTopic(c, sendOk) ==
    /\ pc[c] = "reg_topic"
    /\ registrationMap' =
           AddProducer(registrationMap, TopicKey(topicOf(cmd[c].params)), NewProducer(c))
    /\ Respond(c, OK, sendOk)
    /\ UNCHANGED <<peerInfo, remoteAddr, regs, now, lookupd, marked, nsqadmin, hnodes, lockVars, httpVars, ncmds>>

\* UNREGISTER up to its first store operation
UNREGISTER(c, line, sendOk) ==
    /\ pc[c] = "read"
    /\ ncmds > 0
    /\ ncmds' = ncmds - 1
    /\ line.name = "UNREGISTER"
    /\ IF RegisterErr(c, line.params) # NoReply
       THEN /\ Fatal(c, RegisterErr(c, line.params))
            /\ UNCHANGED <<registrationMap, regs>>
       ELSE IF channelOf(line.params) # Empty
       THEN LET key == ChannelKey(topicOf(line.params), channelOf(line.params))
                left == RemoveProducerLeft(registrationMap, key, remoteAddr[c])
            IN  /\ registrationMap' = RemoveProducer(registrationMap, key, remoteAddr[c])
                /\ IF left = 0 /\ HasSuffix(channelOf(line.params), EphemeralSuffix)
                   THEN /\ pc' = [pc EXCEPT ![c] = "unreg_rmreg"]
                        /\ cmd' = [cmd EXCEPT ![c] = line]
                        /\ reply' = [reply EXCEPT ![c] = NoReply]
                   ELSE Respond(c, OK, sendOk)
                /\ UNCHANGED regs
       ELSE /\ regs' = [regs EXCEPT ![c] =
                           FindRegistrations(registrationMap, "channel", topicOf(line.params), Star)]
            /\ pc' = [pc EXCEPT ![c] = "unreg_loop"]
            /\ cmd' = [cmd EXCEPT ![c] = line]
            /\ reply' = [reply EXCEPT ![c] = NoReply]
            /\ UNCHANGED registrationMap
    /\ Detach
    /\ UNCHANGED <<peerInfo, remoteAddr, now, lookupd, marked, nsqadmin, hnodes, lockVars, httpCtl>>

\* UNREGISTER of an ephemeral channel left without producers: RemoveRegistration
UnregisterRemoveRegistration(c, sendOk) ==
    /\ pc[c] = "unreg_rmreg"
    /\ registrationMap' =
           RemoveRegistration(registrationMap,
                              ChannelKey(topicOf(cmd[c].params), channelOf(cmd[c].params)))
    /\ Respond(c, OK, sendOk)
    /\ Detach
    /\ UNCHANGED <<peerInfo, remoteAddr, regs, now, lookupd, marked, nsqadmin, hnodes, lockVars, httpCtl, ncmds>>

\* topic-level UNREGISTER: one RemoveProducer of the range over the channel keys
UnregisterChannel(c, r) ==
    /\ pc[c] = "unreg_loop"
    /\ r \in regs[c]
    /\ registrationMap' = RemoveProducer(registrationMap, r, remoteAddr[c])
    /\ regs' = [regs EXCEPT ![c] = regs[c] \ {r}]
    /\ reply' = [reply EXCEPT ![c] = NoReply]
    /\ Detach
    /\ UNCHANGED <<peerInfo, remoteAddr, pc, cmd, now, lookupd, marked, nsqadmin, hnodes, lockVars, httpCtl, ncmds>>

\* topic-level UNREGISTER: the RemoveProducer under the topic key, and the reply
UnregisterTopic(c, sendOk) ==
    /\ pc[c] = "unreg_loop"
    /\ regs[c] = {}
    /\ registrationMap' =
           RemoveProducer(registrationMap, TopicKey(topicOf(cmd[c].params)), remoteAddr[c])
    /\ Respond(c, OK, sendOk)
    /\ Detach
    /\ UNCHANGED <<peerInfo, remoteAddr, regs, now, lookupd, marked, nsqadmin, hnodes, lockVars, httpCtl, ncmds>>

\* after the loop and conn.Close(): LookupRegistrations of the client's id and
\* the range over its result; nothing at all for a connection that never
\* identified.  IOLoop returns when the range is over.
CleanupLookup(c) ==
    /\ pc[c] = "closed"
    /\ LET found == IF peerInfo[c] # NULL
                    THEN LookupRegistrations(registrationMap, peerInfo[c].id)
                    ELSE {}
       IN  /\ regs' = [regs EXCEPT ![c] = found]
           /\ pc' = [pc EXCEPT ![c] = IF found = {} THEN "done" ELSE "cleanup"]
    /\ reply' = [reply EXCEPT ![c] = NoReply]
    /\ UNCHANGED <<registrationMap, peerInfo, remoteAddr, cmd, now, lookupd, marked, nsqadmin, hnodes, lockVars, httpVars, ncmds>>

\* one RemoveProducer of the range over the registrations found
CleanupRemove(c, r) ==
    /\ pc[c] = "cleanup"
    /\ r \in regs[c]
    /\ registrationMap' = RemoveProducer(registrationMap, r, peerInfo[c].id)
    /\ regs' = [regs EXCEPT ![c] = regs[c] \ {r}]
    /\ pc' = [pc EXCEPT ![c] = IF regs[c] = {r} THEN "done" ELSE "cleanup"]
    /\ reply' = [reply EXCEPT ![c] = NoReply]
    /\ Detach
    /\ UNCHANGED <<peerInfo, remoteAddr, cmd, now, lookupd, marked, nsqadmin, hnodes, lockVars, httpCtl, ncmds>>

(***************************************************************************)
(* Producers.                                                              *)
(***************************************************************************)
\* a tombstone that never expires
IsTombstonedForever(p, lifetime) == p.tombstoned

IsTombstoned(p, lifetime) == p.tombstoned /\ now - p.tombstonedAt < lifetime

\* a filter that drops a producer tombstoned under any registration
FilterByActiveAnyTopic(pp, inactivityTimeout, tombstoneLifetime) ==
    SelectSeq(pp, LAMBDA p :
        ~(now - peerInfo[p.peer].lastUpdate > inactivityTimeout
          \/ \E k \in DOMAIN registrationMap : \E i \in 1..Len(registrationMap[k]) :
                /\ registrationMap[k][i].peer = p.peer
                /\ IsTombstoned(registrationMap[k][i], tombstoneLifetime)))

\* a filter that also leaves out the first producer it would keep
FilterByActiveSkipsFirst(pp, inactivityTimeout, tombstoneLifetime) ==
    LET kept == SelectSeq(pp, LAMBDA p :
                    ~(now - peerInfo[p.peer].lastUpdate > inactivityTimeout
                      \/ IsTombstoned(p, tombstoneLifetime)))
    IN  IF kept = << >> THEN kept ELSE Tail(kept)

\* a filter that looks at the tombstone only
FilterByActiveNoTimeout(pp, inactivityTimeout, tombstoneLifetime) ==
    SelectSeq(pp, LAMBDA p : ~IsTombstoned(p, tombstoneLifetime))

FilterByActive(pp, inactivityTimeout, tombstoneLifetime) ==
    SelectSeq(pp, LAMBDA p :
        ~(now - peerInfo[p.peer].lastUpdate > inactivityTimeout
          \/ IsTombstoned(p, tombstoneLifetime)))

\* Producers.PeerInfo: the PeerInfo pointers, in order
PeerInfos(pp) == [i \in 1..Len(pp) |-> pp[i].peer]

\* the pointers to the producers listed under key k, in list order
PointersUnder(m, k) == [i \in 1..Len(m[k]) |-> Pointer(k, m[k][i].peer)]
Derefs(m, pp) == [i \in 1..Len(pp) |-> Deref(m, pp[i])]

\* the inner loops of FindProducers: append the producers whose id is not yet
\* in the results
RECURSIVE AppendNew(_, _)
AppendNew(results, producers) ==
    IF producers = << >> THEN results
    ELSE AppendNew(
             IF \E i \in 1..Len(results) :
                    remoteAddr[results[i].peer] = remoteAddr[Head(producers).peer]
             THEN results
             ELSE Append(results, Head(producers)),
             Tail(producers))

RECURSIVE CollectProducers(_, _, _)
CollectProducers(m, order, results) ==
    IF order = << >> THEN results
    ELSE CollectProducers(m, Tail(order), AppendNew(results, PointersUnder(m, Head(order))))

\* the orders in which a range over a Go map can visit the keys of S
Orders(S) ==
    {o \in [1..Cardinality(S) -> S] : \A i, j \in 1..Cardinality(S) : o[i] = o[j] => i = j}

\* the producers of the keys of a range, every list appended whole
RECURSIVE AppendAll(_, _)
AppendAll(m, order) ==
    IF order = << >> THEN << >>
    ELSE PointersUnder(m, Head(order)) \o AppendAll(m, Tail(order))

\* a FindProducers that does not look for the id in its results
FindProducersRepeated(m, category, key, subkey) ==
    IF ~needFilter(key, subkey)
    THEN IF Registration(category, key, subkey) \in DOMAIN m
         THEN {PointersUnder(m, Registration(category, key, subkey))}
         ELSE {<< >>}
    ELSE {AppendAll(m, o) :
             o \in Orders({k \in DOMAIN m : IsMatch(k, category, key, subkey)})}

\* the results FindProducers can return: one for each order in which the range
\* visits the matching keys
FindProducers(m, category, key, subkey) ==
    IF ~needFilter(key, subkey)
    THEN IF Registration(category, key, subkey) \in DOMAIN m
         THEN {PointersUnder(m, Registration(category, key, subkey))}
         ELSE {<< >>}
    ELSE {CollectProducers(m, o, << >>) :
             o \in Orders({k \in DOMAIN m : IsMatch(k, category, key, subkey)})}

\* Registrations.Keys and SubKeys, as sets
KeysOf(rr) == {k.Key : k \in rr}
SubKeys(rr) == {k.SubKey : k \in rr}

(***************************************************************************)
(* The HTTP handlers: one goroutine per request.                           *)
(***************************************************************************)
\* a query parameter that the request does not carry
NoArg == <<"(absent)">>

HttpPaths ==
    {"/lookup", "/channels", "/topic/create", "/topic/delete", "/topic/tombstone",
     "/channel/create", "/channel/delete"}
HttpTopics == {T1, Star, NoArg}
HttpChannels == {Ch1, ChE, NoArg}
\* fmt.Sprintf("%s:%d", BroadcastAddress, HTTPPort)
NodeOf(broadcastAddress, httpPort) == <<broadcastAddress, ":", httpPort>>
HttpNodes == {NodeOf(GoodBody.BroadcastAddress, GoodBody.HTTPPort), NodeOf("p2", 4151), NoArg}
HttpRequests ==
    {[path |-> p, topic |-> t, channel |-> NoArg, node |-> NoArg] :
        p \in {"/lookup", "/channels", "/topic/create", "/topic/delete"}, t \in HttpTopics}
    \cup {[path |-> p, topic |-> t, channel |-> ch, node |-> NoArg] :
        p \in {"/channel/create", "/channel/delete"}, t \in HttpTopics, ch \in HttpChannels}
    \cup {[path |-> "/topic/tombstone", topic |-> t, channel |-> NoArg, node |-> n] :
        t \in HttpTopics, n \in HttpNodes}

\* doNodes before it has called the store
NoNodes == [producers |-> << >>, topics |-> << >>, todo |-> << >>]
NoRequest == [path |-> "", topic |-> NoArg, channel |-> NoArg, node |-> NoArg]
NoResponse == [code |-> 0, message |-> "", channels |-> {}, producers |-> << >>]
Err(code, text) == [code |-> code, message |-> text, channels |-> {}, producers |-> << >>]
Ok200 == [code |-> 200, message |-> "", channels |-> {}, producers |-> << >>]

\* the error of GetTopicChannelArgs, or "" when both names are accepted
GetTopicChannelArgsErr(req) ==
    IF req.topic = NoArg THEN "MISSING_ARG_TOPIC"
    ELSE IF ~IsValidTopicName(req.topic) THEN "INVALID_ARG_TOPIC"
    ELSE IF req.channel = NoArg THEN "MISSING_ARG_CHANNEL"
    ELSE IF ~IsValidChannelName(req.channel) THEN "INVALID_ARG_CHANNEL"
    ELSE ""

\* the handler returns and the decorators write the response
HttpReturn(h, resp) ==
    /\ hresp' = [hresp EXCEPT ![h] = resp]
    /\ hpc' = [hpc EXCEPT ![h] = "responded"]
    /\ hreq' = [hreq EXCEPT ![h] = NoRequest]
    /\ hregs' = [hregs EXCEPT ![h] = {}]

\* the handler goes on to its next store operation
HttpGoto(h, req, label, rr, resp) ==
    /\ hresp' = [hresp EXCEPT ![h] = resp]
    /\ hpc' = [hpc EXCEPT ![h] = label]
    /\ hreq' = [hreq EXCEPT ![h] = req]
    /\ hregs' = [hregs EXCEPT ![h] = rr]

doChannels(h, req) ==
    /\ hpc[h] = "none"
    /\ \A g \in Https : g < h => hpc[g] # "none"
    /\ req.path = "/channels"
    /\ IF req.topic = NoArg
       THEN HttpReturn(h, Err(400, "MISSING_ARG_TOPIC"))
       ELSE HttpReturn(h, [Ok200 EXCEPT !.channels =
                SubKeys(FindRegistrations(registrationMap, "channel", req.topic, Star))])
    /\ UNCHANGED <<registrationMap, tcpVars, hprods, now, lookupd, marked, nsqadmin, hnodes, lockVars, ncmds>>

\* doLookup up to its first FindRegistrations
doLookup(h, req) ==
    /\ hpc[h] = "none"
    /\ \A g \in Https : g < h => hpc[g] # "none"
    /\ req.path = "/lookup"
    /\ IF req.topic = NoArg
       THEN HttpReturn(h, Err(400, "MISSING_ARG_TOPIC"))
       ELSE IF FindRegistrations(registrationMap, "topic", req.topic, Empty) = {}
       THEN HttpReturn(h, Err(404, "TOPIC_NOT_FOUND"))
       ELSE HttpGoto(h, req, "lookup_channels", {}, NoResponse)
    /\ UNCHANGED <<registrationMap, tcpVars, hprods, now, lookupd, marked, nsqadmin, hnodes, lockVars, ncmds>>

\* doLookup: the channels of the topic
LookupChannels(h) ==
    /\ hpc[h] = "lookup_channels"
    /\ HttpGoto(h, hreq[h], "lookup_producers", {},
                [NoResponse EXCEPT !.channels =
                    SubKeys(FindRegistrations(registrationMap, "channel", hreq[h].topic, Star))])
    /\ UNCHANGED <<registrationMap, tcpVars, hprods, now, lookupd, marked, nsqadmin, hnodes, lockVars, ncmds>>

\* doLookup: the active producers of the topic, and the response
LookupProducers(h) ==
    /\ hpc[h] = "lookup_producers"
    /\ \E producers \in FindProducers(registrationMap, "topic", hreq[h].topic, Empty) :
          HttpReturn(h, [code |-> 200, message |-> "", channels |-> hresp[h].channels,
                         producers |-> PeerInfos(FilterByActive(
                                          Derefs(registrationMap, producers),
                                          InactiveProducerTimeout, TombstoneLifetime))])
    /\ UNCHANGED <<registrationMap, tcpVars, hprods, now, lookupd, marked, nsqadmin, hnodes, lockVars, ncmds>>

doCreateTopic(h, req) ==
    /\ hpc[h] = "none"
    /\ \A g \in Https : g < h => hpc[g] # "none"
    /\ req.path = "/topic/create"
    /\ IF req.topic = NoArg
       THEN HttpReturn(h, Err(400, "MISSING_ARG_TOPIC")) /\ UNCHANGED registrationMap
       ELSE IF ~IsValidTopicName(req.topic)
       THEN HttpReturn(h, Err(400, "INVALID_ARG_TOPIC")) /\ UNCHANGED registrationMap
       ELSE /\ registrationMap' = AddRegistration(registrationMap, TopicKey(req.topic))
            /\ HttpReturn(h, Ok200)
    /\ UNCHANGED <<tcpVars, hprods, now, lookupd, marked, nsqadmin, hnodes, lockVars, ncmds>>

\* doDeleteTopic up to its first FindRegistrations
doDeleteTopic(h, req) ==
    /\ hpc[h] = "none"
    /\ \A g \in Https : g < h => hpc[g] # "none"
    /\ req.path = "/topic/delete"
    /\ IF req.topic = NoArg
       THEN HttpReturn(h, Err(400, "MISSING_ARG_TOPIC"))
       ELSE HttpGoto(h, req, "delete_topic_channels",
                     FindRegistrations(registrationMap, "channel", req.topic, Star), NoResponse)
    /\ UNCHANGED <<registrationMap, tcpVars, hprods, now, lookupd, marked, nsqadmin, hnodes, lockVars, ncmds>>

\* doDeleteTopic: one RemoveRegistration of the range over the channel keys
DeleteTopicChannel(h, r) ==
    /\ hpc[h] = "delete_topic_channels"
    /\ r \in hregs[h]
    /\ registrationMap' = RemoveRegistration(registrationMap, r)
    /\ hregs' = [hregs EXCEPT ![h] = hregs[h] \ {r}]
    /\ Detach
    /\ UNCHANGED <<hpc, hreq, hresp, tcpVars, now, lookupd, marked, nsqadmin, hnodes, lockVars, ncmds>>

\* doDeleteTopic: the second FindRegistrations, for the topic key
DeleteTopicFind(h) ==
    /\ hpc[h] = "delete_topic_channels"
    /\ hregs[h] = {}
    /\ LET found == FindRegistrations(registrationMap, "topic", hreq[h].topic, Empty)
       IN  IF found = {}
           THEN HttpReturn(h, Ok200)
           ELSE HttpGoto(h, hreq[h], "delete_topic_topics", found, NoResponse)
    /\ UNCHANGED <<registrationMap, tcpVars, hprods, now, lookupd, marked, nsqadmin, hnodes, lockVars, ncmds>>

\* doDeleteTopic: one RemoveRegistration of the range over the topic keys
DeleteTopicTopic(h, r) ==
    /\ hpc[h] = "delete_topic_topics"
    /\ r \in hregs[h]
    /\ registrationMap' = RemoveRegistration(registrationMap, r)
    /\ IF hregs[h] = {r}
       THEN HttpReturn(h, Ok200)
       ELSE /\ hregs' = [hregs EXCEPT ![h] = hregs[h] \ {r}]
            /\ UNCHANGED <<hpc, hreq, hresp>>
    /\ Detach
    /\ UNCHANGED <<tcpVars, now, lookupd, marked, nsqadmin, hnodes, lockVars, ncmds>>

\* history of p.Tombstone(): the mark of the producer and key of ptr, at the
\* clock's reading, takes the place of an earlier one
Mark(log, ptr) ==
    {x \in log : x.peer # ptr.peer \/ x.key # ptr.key}
        \cup {[peer |-> ptr.peer, key |-> ptr.key, at |-> now]}

\* Producer.Tombstone
Tombstone(p) == [p EXCEPT !.tombstoned = TRUE, !.tombstonedAt = now]

\* the producers of the range whose node is the one asked for; the fields
\* compared are written before IDENTIFY lists the PeerInfo and never after
OfNode(pp, node) ==
    SelectSeq(pp, LAMBDA ptr :
        NodeOf(peerInfo[ptr.peer].BroadcastAddress, peerInfo[ptr.peer].HTTPPort) = node)

\* doTombstoneTopicProducer up to its FindProducers
doTombstoneTopicProducer(h, req) ==
    /\ hpc[h] = "none"
    /\ \A g \in Https : g < h => hpc[g] # "none"
    /\ req.path = "/topic/tombstone"
    /\ IF req.topic = NoArg
       THEN HttpReturn(h, Err(400, "MISSING_ARG_TOPIC")) /\ UNCHANGED hprods
       ELSE IF req.node = NoArg
       THEN HttpReturn(h, Err(400, "MISSING_ARG_NODE")) /\ UNCHANGED hprods
       ELSE \E producers \in FindProducers(registrationMap, "topic", req.topic, Empty) :
               IF OfNode(producers, req.node) = << >>
               THEN HttpReturn(h, Ok200) /\ UNCHANGED hprods
               ELSE /\ HttpGoto(h, req, "tombstone", {}, NoResponse)
                    /\ hprods' = [hprods EXCEPT ![h] = OfNode(producers, req.node)]
    /\ UNCHANGED <<registrationMap, tcpVars, now, lookupd, marked, nsqadmin, hnodes, lockVars, ncmds>>

\* a Tombstone() that marks the producer under every registration
TombstoneProducerShared(h) ==
    /\ hpc[h] = "tombstone"
    /\ hprods[h] # << >>
    /\ LET ptr == Head(hprods[h])
       IN  registrationMap' =
               [k \in DOMAIN registrationMap |->
                   [i \in 1..Len(registrationMap[k]) |->
                       IF registrationMap[k][i].peer = ptr.peer
                       THEN Tombstone(registrationMap[k][i])
                       ELSE registrationMap[k][i]]]
    /\ hprods' = [hprods EXCEPT ![h] = Tail(hprods[h])]
    /\ marked' = Mark(marked, Head(hprods[h]))
    /\ UNCHANGED <<tcpVars, httpCtl, now, lookupd, nsqadmin, hnodes, lockVars, ncmds>>

\* doTombstoneTopicProducer: one p.Tombstone() of the range over the producers
TombstoneProducer(h) ==
    /\ hpc[h] = "tombstone"
    /\ hprods[h] # << >>
    /\ LET ptr == Head(hprods[h])
       IN  registrationMap' =
               [registrationMap EXCEPT ![ptr.key][Index(registrationMap, ptr)] =
                    Tombstone(Deref(registrationMap, ptr))]
    /\ hprods' = [hprods EXCEPT ![h] = Tail(hprods[h])]
    /\ marked' = Mark(marked, Head(hprods[h]))
    /\ UNCHANGED <<tcpVars, httpCtl, now, lookupd, nsqadmin, hnodes, lockVars, ncmds>>

\* doTombstoneTopicProducer: the range is over
TombstoneReturn(h) ==
    /\ hpc[h] = "tombstone"
    /\ hprods[h] = << >>
    /\ HttpReturn(h, Ok200)
    /\ UNCHANGED <<registrationMap, tcpVars, hprods, now, lookupd, marked, nsqadmin, hnodes, lockVars, ncmds>>

\* doCreateChannel up to its first AddRegistration
doCreateChannel(h, req) ==
    /\ hpc[h] = "none"
    /\ \A g \in Https : g < h => hpc[g] # "none"
    /\ req.path = "/channel/create"
    /\ IF GetTopicChannelArgsErr(req) # ""
       THEN HttpReturn(h, Err(400, GetTopicChannelArgsErr(req))) /\ UNCHANGED registrationMap
       ELSE /\ registrationMap' =
                   AddRegistration(registrationMap, ChannelKey(req.topic, req.channel))
            /\ HttpGoto(h, req, "create_channel_topic", {}, NoResponse)
    /\ UNCHANGED <<tcpVars, hprods, now, lookupd, marked, nsqadmin, hnodes, lockVars, ncmds>>

\* doCreateChannel: the AddRegistration of the topic key
CreateChannelTopic(h) ==
    /\ hpc[h] = "create_channel_topic"
    /\ registrationMap' = AddRegistration(registrationMap, TopicKey(hreq[h].topic))
    /\ HttpReturn(h, Ok200)
    /\ UNCHANGED <<tcpVars, hprods, now, lookupd, marked, nsqadmin, hnodes, lockVars, ncmds>>

\* doDeleteChannel up to its FindRegistrations
doDeleteChannel(h, req) ==
    /\ hpc[h] = "none"
    /\ \A g \in Https : g < h => hpc[g] # "none"
    /\ req.path = "/channel/delete"
    /\ IF GetTopicChannelArgsErr(req) # ""
       THEN HttpReturn(h, Err(400, GetTopicChannelArgsErr(req)))
       ELSE LET found == FindRegistrations(registrationMap, "channel", req.topic, req.channel)
            IN  IF found = {}
                THEN HttpReturn(h, Err(404, "CHANNEL_NOT_FOUND"))
                ELSE HttpGoto(h, req, "delete_channel", found, NoResponse)
    /\ UNCHANGED <<registrationMap, tcpVars, hprods, now, lookupd, marked, nsqadmin, hnodes, lockVars, ncmds>>

\* a /channel/delete that removes the topic registration with the channel
DeleteChannelWithTopic(h, r) ==
    /\ hpc[h] = "delete_channel"
    /\ r \in hregs[h]
    /\ registrationMap' =
           RemoveRegistration(RemoveRegistration(registrationMap, r), TopicKey(r.Key))
    /\ IF hregs[h] = {r}
       THEN HttpReturn(h, Ok200)
       ELSE /\ hregs' = [hregs EXCEPT ![h] = hregs[h] \ {r}]
            /\ UNCHANGED <<hpc, hreq, hresp>>
    /\ Detach
    /\ UNCHANGED <<tcpVars, now, lookupd, marked, nsqadmin, hnodes, lockVars, ncmds>>

\* doDeleteChannel: one RemoveRegistration of the range over the keys found
DeleteChannel(h, r) ==
    /\ hpc[h] = "delete_channel"
    /\ r \in hregs[h]
    /\ registrationMap' = RemoveRegistration(registrationMap, r)
    /\ IF hregs[h] = {r}
       THEN HttpReturn(h, Ok200)
       ELSE /\ hregs' = [hregs EXCEPT ![h] = hregs[h] \ {r}]
            /\ UNCHANGED <<hpc, hreq, hresp>>
    /\ Detach
    /\ UNCHANGED <<tcpVars, now, lookupd, marked, nsqadmin, hnodes, lockVars, ncmds>>

\* doNodes up to its FindProducers("client", "", ""), filtered with a
\* tombstone lifetime of 0; the PeerInfo pointers are all the handler uses of
\* these producers
doNodes(h, req) ==
    /\ hpc[h] = "none"
    /\ \A g \in Https : g < h => hpc[g] # "none"
    /\ req.path = "/nodes"
    /\ \E producers \in FindProducers(registrationMap, "client", Empty, Empty) :
          hnodes' = [hnodes EXCEPT ![h] =
              [NoNodes EXCEPT !.producers =
                  PeerInfos(FilterByActive(Derefs(registrationMap, producers),
                                           InactiveProducerTimeout, 0))]]
    /\ HttpGoto(h, req, "nodes_topics", {}, NoResponse)
    /\ UNCHANGED <<registrationMap, tcpVars, hprods, now, lookupd, marked, nsqadmin, lockVars, ncmds>>

\* doNodes: topics and tombstones are built once, before the loop over the
\* producers, from LookupRegistrations(p.peerInfo.id) of a producer p that the
\* loop has not named yet: any of the producers found, and no topics when
\* there is none.  The keys come in the order of a range over the map.
NodesTopics(h) ==
    /\ hpc[h] = "nodes_topics"
    /\ \E topics \in
          IF hnodes[h].producers = << >> THEN {<< >>}
          ELSE UNION {Orders(KeysOf({r \in LookupRegistrations(registrationMap,
                                                  peerInfo[hnodes[h].producers[i]].id) :
                                        IsMatch(r, "topic", Star, Empty)})) :
                         i \in 1..Len(hnodes[h].producers)} :
          hnodes' = [hnodes EXCEPT ![h].topics = topics, ![h].todo = topics]
    /\ hpc' = [hpc EXCEPT ![h] = "nodes_producers"]
    /\ UNCHANGED <<registrationMap, tcpVars, hreq, hregs, hresp, hprods, now, lookupd, marked, nsqadmin, lockVars, ncmds>>

\* doNodes: one FindProducers("topic", t, "") of the range over the topics,
\* appended to topicProducers
NodesTopicProducers(h) ==
    /\ hpc[h] = "nodes_producers"
    /\ hnodes[h].todo # << >>
    /\ \E producers \in FindProducers(registrationMap, "topic", Head(hnodes[h].todo), Empty) :
          hprods' = [hprods EXCEPT ![h] = hprods[h] \o producers]
    /\ hnodes' = [hnodes EXCEPT ![h].todo = Tail(hnodes[h].todo)]
    /\ UNCHANGED <<registrationMap, tcpVars, httpCtl, now, lookupd, marked, nsqadmin, lockVars, ncmds>>

\* the loop over topicProducers for producer p: the value left in
\* tombstones[j] is that of the last entry with p's PeerInfo, whatever its topic
RECURSIVE LastOfPeer(_, _, _)
LastOfPeer(value, p, topicProducers) ==
    IF topicProducers = << >> THEN value
    ELSE LastOfPeer(IF Head(topicProducers).peer = p
                    THEN IsTombstoned(Load(registrationMap, Head(topicProducers)),
                                      TombstoneLifetime)
                    ELSE value,
                    p, Tail(topicProducers))

\* the loop over the producers, writing the one tombstones slice
RECURSIVE LastOfProducers(_, _, _)
LastOfProducers(value, producers, topicProducers) ==
    IF producers = << >> THEN value
    ELSE LastOfProducers(LastOfPeer(value, Head(producers), topicProducers),
                         Tail(producers), topicProducers)

\* doNodes: the loops that fill tombstones, and the response; every node holds
\* the same topics and tombstones slices, so the response shows for each node
\* what the loops left in them at the end
NodesReturn(h) ==
    /\ hpc[h] = "nodes_producers"
    /\ hnodes[h].todo = << >>
    /\ LET topics == hnodes[h].topics
           tombstones == [j \in 1..Len(topics) |->
                             LastOfProducers(FALSE, hnodes[h].producers, hprods[h])]
       IN  HttpReturn(h, [Ok200 EXCEPT !.producers =
               [i \in 1..Len(hnodes[h].producers) |->
                   [peer |-> hnodes[h].producers[i], topics |-> topics,
                    tombstones |-> tombstones]]])
    /\ hnodes' = [hnodes EXCEPT ![h] = NoNodes]
    /\ hprods' = [hprods EXCEPT ![h] = << >>]
    /\ UNCHANGED <<registrationMap, tcpVars, now, lookupd, marked, nsqadmin, lockVars, ncmds>>

\* the goroutine of the request ends
HttpEnd(h) ==
    /\ hpc[h] = "responded"
    /\ hpc' = [hpc EXCEPT ![h] = "done"]
    /\ hresp' = [hresp EXCEPT ![h] = NoResponse]
    /\ UNCHANGED <<registrationMap, tcpVars, hreq, hregs, hprods, now, lookupd, marked, nsqadmin, hnodes, lockVars, ncmds>>

\* time passes
Tick ==
    /\ now < MaxTime
    /\ now' = now + 1
    /\ UNCHANGED <<registrationMap, tcpVars, httpVars, hnodes, lockVars, lookupd, marked, nsqadmin, ncmds>>

(***************************************************************************)
(* The system.                                                             *)
(***************************************************************************)
Init ==
    /\ registrationMap = << >>
    /\ peerInfo = [c \in Conns |-> NULL]
    /\ remoteAddr = [c \in Conns |-> NoAddr]
    /\ pc = [c \in Conns |-> "none"]
    /\ cmd = [c \in Conns |-> NoCmd]
    /\ regs = [c \in Conns |-> {}]
    /\ reply = [c \in Conns |-> NoReply]
    /\ now = 0
    /\ lookupd = Serving
    /\ marked = {}
    /\ nsqadmin = Admin
    /\ hpc = [h \in Https |-> "none"]
    /\ hreq = [h \in Https |-> NoRequest]
    /\ hregs = [h \in Https |-> {}]
    /\ hprods = [h \in Https |-> << >>]
    /\ hnodes = [h \in Https |-> NoNodes]
    /\ mu = Unlocked
    /\ ops = [w \in Workers |-> NoOp]
    /\ hresp = [h \in Https |-> NoResponse]
    /\ ncmds = MaxCmds

Lines(name) == {line \in CmdLines : line.name = name}
Requests(path) == {req \in HttpRequests : req.path = path}

TcpStep(c) ==
    \/ \E a \in UsedAddrs \cup {FreshAddr} : Accept(c, a)
    \/ ReadError(c)
    \/ \E line \in Lines("FOO") : InvalidCommand(c, line)
    \/ \E line \in Lines("PING"), sendOk \in BOOLEAN : PING(c, line, sendOk)
    \/ \E line \in Lines("IDENTIFY"), body \in IdentifyBodies, sendOk \in BOOLEAN :
          IDENTIFY(c, line, body, sendOk)
    \/ \E line \in Lines("REGISTER"), sendOk \in BOOLEAN : REGISTER(c, line, sendOk)
    \/ \E sendOk \in BOOLEAN : RegisterTopic(c, sendOk)
    \/ \E line \in Lines("UNREGISTER"), sendOk \in BOOLEAN : UNREGISTER(c, line, sendOk)
    \/ \E sendOk \in BOOLEAN : UnregisterRemoveRegistration(c, sendOk)
    \/ \E r \in regs[c] : UnregisterChannel(c, r)
    \/ \E sendOk \in BOOLEAN : UnregisterTopic(c, sendOk)
    \/ CleanupLookup(c)
    \/ \E r \in regs[c] : CleanupRemove(c, r)

HttpStep(h) ==
    \/ \E req \in Requests("/channels") : doChannels(h, req)
    \/ \E req \in Requests("/lookup") : doLookup(h, req)
    \/ LookupChannels(h)
    \/ LookupProducers(h)
    \/ \E req \in Requests("/topic/create") : doCreateTopic(h, req)
    \/ \E req \in Requests("/topic/delete") : doDeleteTopic(h, req)
    \/ \E r \in hregs[h] : DeleteTopicChannel(h, r)
    \/ DeleteTopicFind(h)
    \/ \E r \in hregs[h] : DeleteTopicTopic(h, r)
    \/ \E req \in Requests("/topic/tombstone") : doTombstoneTopicProducer(h, req)
    \/ TombstoneProducer(h)
    \/ TombstoneReturn(h)
    \/ \E req \in Requests("/channel/create") : doCreateChannel(h, req)
    \/ CreateChannelTopic(h)
    \/ \E req \in Requests("/channel/delete") : doDeleteChannel(h, req)
    \/ \E r \in hregs[h] : DeleteChannel(h, r)
    \/ HttpEnd(h)

Next ==
    \/ \E c \in Conns : TcpStep(c)
    \/ \E h \in Https : HttpStep(h)

Spec == Init /\ [][Next]_vars

\* the TCP engine alone, with a longer run of commands
InitTcp ==
    /\ registrationMap = << >>
    /\ peerInfo = [c \in Conns |-> NULL]
    /\ remoteAddr = [c \in Conns |-> NoAddr]
    /\ pc = [c \in Conns |-> "none"]
    /\ cmd = [c \in Conns |-> NoCmd]
    /\ regs = [c \in Conns |-> {}]
    /\ reply = [c \in Conns |-> NoReply]
    /\ now = 0
    /\ lookupd = Serving
    /\ marked = {}
    /\ nsqadmin = Admin
    /\ hpc = [h \in Https |-> "none"]
    /\ hreq = [h \in Https |-> NoRequest]
    /\ hregs = [h \in Https |-> {}]
    /\ hprods = [h \in Https |-> << >>]
    /\ hnodes = [h \in Https |-> NoNodes]
    /\ mu = Unlocked
    /\ ops = [w \in Workers |-> NoOp]
    /\ hresp = [h \in Https |-> NoResponse]
    /\ ncmds = MaxCmdsTcp

NextTcp == \E c \in Conns : TcpStep(c)

SpecTcp == InitTcp /\ [][NextTcp]_vars

\* the clock runs, producers of two nodes register topics, and HTTP requests
\* follow one another: lookups and tombstones
OtherBody == [GoodBody EXCEPT !.BroadcastAddress = "p2", !.Hostname = "h2"]
TimeBodies == {GoodBody, OtherBody}
TimeLines ==
    {[name |-> n, params |-> << >>] : n \in {"PING", "IDENTIFY"}}
    \cup {[name |-> "REGISTER", params |-> <<t>>] : t \in {T1, T2}}
TimeRequests ==
    {[path |-> "/lookup", topic |-> t, channel |-> NoArg, node |-> NoArg] : t \in {T1, T2}}
    \cup {[path |-> "/topic/tombstone", topic |-> T1, channel |-> NoArg, node |-> n] :
             n \in HttpNodes \ {NoArg}}

\* the request is over and the server accepts the next one on a new goroutine
HttpAgain(h) ==
    /\ hpc[h] = "responded"
    /\ ncmds > 0
    /\ ncmds' = ncmds - 1
    /\ hpc' = [hpc EXCEPT ![h] = "none"]
    /\ hresp' = [hresp EXCEPT ![h] = NoResponse]
    /\ UNCHANGED <<registrationMap, tcpVars, hreq, hregs, hprods, now, lookupd, marked, nsqadmin, hnodes, lockVars>>

\* the producers of the first n connections, in the order they were added
FirstProducers(n) == [i \in 1..n |-> NewProducer(i)]

\* the run starts after the first connection sent IDENTIFY (node p1),
\* REGISTER t and REGISTER u, and either no other connection was accepted or
\* every other connection sent IDENTIFY (node p2) and REGISTER t; no request
\* has been served yet
InitTime ==
    /\ now = 0
    /\ lookupd = Serving
    /\ marked = {}
    /\ nsqadmin = Admin
    /\ \E n \in {1, NumConns} :
          /\ remoteAddr = [c \in Conns |-> IF c <= n THEN Addr(c) ELSE NoAddr]
          /\ pc = [c \in Conns |-> IF c <= n THEN "read" ELSE "none"]
          /\ peerInfo = [c \in Conns |->
                 IF c = 1 THEN NewPeerInfo(c, GoodBody)
                 ELSE IF c <= n THEN NewPeerInfo(c, OtherBody)
                 ELSE NULL]
          /\ registrationMap =
                 MapPut(MapPut(MapPut(<< >>, ClientKey, FirstProducers(n)),
                               TopicKey(T1), FirstProducers(n)),
                        TopicKey(T2), FirstProducers(1))
    /\ cmd = [c \in Conns |-> NoCmd]
    /\ regs = [c \in Conns |-> {}]
    /\ reply = [c \in Conns |-> NoReply]
    /\ hpc = [h \in Https |-> "none"]
    /\ hreq = [h \in Https |-> NoRequest]
    /\ hregs = [h \in Https |-> {}]
    /\ hprods = [h \in Https |-> << >>]
    /\ hnodes = [h \in Https |-> NoNodes]
    /\ mu = Unlocked
    /\ ops = [w \in Workers |-> NoOp]
    /\ hresp = [h \in Https |-> NoResponse]
    /\ ncmds = MaxCmdsTime

TimeTcpStep(c) ==
    \/ \E a \in UsedAddrs \cup {FreshAddr} : Accept(c, a)
    \/ ReadError(c)
    \/ \E line \in TimeLines, sendOk \in BOOLEAN : PING(c, line, sendOk)
    \/ \E line \in TimeLines, body \in TimeBodies, sendOk \in BOOLEAN :
          IDENTIFY(c, line, body, sendOk)
    \/ \E line \in TimeLines, sendOk \in BOOLEAN : REGISTER(c, line, sendOk)
    \/ CleanupLookup(c)
    \/ \E r \in regs[c] : CleanupRemove(c, r)

TimeHttpStep(h) ==
    \/ \E req \in TimeRequests : doLookup(h, req)
    \/ LookupChannels(h)
    \/ LookupProducers(h)
    \/ \E req \in TimeRequests : doTombstoneTopicProducer(h, req)
    \/ TombstoneProducer(h)
    \/ TombstoneReturn(h)
    \/ HttpAgain(h)

NextTime ==
    \/ \E c \in Conns : TimeTcpStep(c)
    \/ \E h \in Https : TimeHttpStep(h)
    \/ Tick

SpecTime == InitTime /\ [][NextTime]_vars

\* /nodes beside tombstones, registrations and disconnects, from the same
\* start as SpecTime
NodesLines == {[name |-> "REGISTER", params |-> <<t>>] : t \in {T1, T2}}
NodesRequests ==
    {[path |-> "/nodes", topic |-> NoArg, channel |-> NoArg, node |-> NoArg]}
    \cup {[path |-> "/topic/tombstone", topic |-> t, channel |-> NoArg,
           node |-> NodeOf(GoodBody.BroadcastAddress, GoodBody.HTTPPort)] : t \in {T1, T2}}

NodesTcpStep(c) ==
    \/ ReadError(c)
    \/ \E line \in NodesLines, sendOk \in BOOLEAN : REGISTER(c, line, sendOk)
    \/ CleanupLookup(c)
    \/ \E r \in regs[c] : CleanupRemove(c, r)

NodesHttpStep(h) ==
    \/ \E req \in NodesRequests : doNodes(h, req)
    \/ NodesTopics(h)
    \/ NodesTopicProducers(h)
    \/ NodesReturn(h)
    \/ \E req \in NodesRequests : doTombstoneTopicProducer(h, req)
    \/ TombstoneProducer(h)
    \/ TombstoneReturn(h)
    \/ HttpAgain(h)

NextNodes ==
    \/ \E c \in Conns : NodesTcpStep(c)
    \/ \E h \in Https : NodesHttpStep(h)
    \/ Tick

SpecNodes == InitTime /\ [][NextNodes]_vars

\* producers go stale and ping again while /lookup and /nodes are queried, from
\* the same start as SpecTime
LiveLines == {[name |-> "PING", params |-> << >>]}
LiveRequests ==
    {[path |-> "/lookup", topic |-> t, channel |-> NoArg, node |-> NoArg] : t \in {T1, T2}}
    \cup {[path |-> "/nodes", topic |-> NoArg, channel |-> NoArg, node |-> NoArg]}

LiveTcpStep(c) ==
    \/ ReadError(c)
    \/ \E line \in LiveLines, sendOk \in BOOLEAN : PING(c, line, sendOk)
    \/ CleanupLookup(c)
    \/ \E r \in regs[c] : CleanupRemove(c, r)

LiveHttpStep(h) ==
    \/ \E req \in LiveRequests : doLookup(h, req)
    \/ LookupChannels(h)
    \/ LookupProducers(h)
    \/ \E req \in LiveRequests : doNodes(h, req)
    \/ NodesTopics(h)
    \/ NodesTopicProducers(h)
    \/ NodesReturn(h)
    \/ HttpAgain(h)

NextLive ==
    \/ \E c \in Conns : LiveTcpStep(c)
    \/ \E h \in Https : LiveHttpStep(h)
    \/ Tick

SpecLive == InitTime /\ [][NextLive]_vars

\* a tombstoned producer goes on sending PING, REGISTER and UNREGISTER on its
\* connection while /lookup is queried, from the same start as SpecTime; no
\* connection is accepted, so that a connection stands for one producer
\* throughout
TombLines ==
    {[name |-> "PING", params |-> << >>]}
    \cup {[name |-> n, params |-> <<T1>>] : n \in {"REGISTER", "UNREGISTER"}}
    \cup {[name |-> "REGISTER", params |-> <<T1, Ch1>>]}
TombRequests ==
    {[path |-> "/lookup", topic |-> T1, channel |-> NoArg, node |-> NoArg]}
    \cup {[path |-> "/topic/tombstone", topic |-> T1, channel |-> NoArg,
           node |-> NodeOf(GoodBody.BroadcastAddress, GoodBody.HTTPPort)]}

TombTcpStep(c) ==
    \/ ReadError(c)
    \/ \E line \in TombLines, sendOk \in BOOLEAN : PING(c, line, sendOk)
    \/ \E line \in TombLines, sendOk \in BOOLEAN : REGISTER(c, line, sendOk)
    \/ \E sendOk \in BOOLEAN : RegisterTopic(c, sendOk)
    \/ \E line \in TombLines, sendOk \in BOOLEAN : UNREGISTER(c, line, sendOk)
    \/ \E r \in regs[c] : UnregisterChannel(c, r)
    \/ \E sendOk \in BOOLEAN : UnregisterTopic(c, sendOk)
    \/ CleanupLookup(c)
    \/ \E r \in regs[c] : CleanupRemove(c, r)

TombHttpStep(h) ==
    \/ \E req \in TombRequests : doLookup(h, req)
    \/ LookupChannels(h)
    \/ LookupProducers(h)
    \/ \E req \in TombRequests : doTombstoneTopicProducer(h, req)
    \/ TombstoneProducer(h)
    \/ TombstoneReturn(h)
    \/ HttpAgain(h)

NextTomb ==
    \/ \E c \in Conns : TombTcpStep(c)
    \/ \E h \in Https : TombHttpStep(h)
    \/ Tick

SpecTomb == InitTime /\ [][NextTomb]_vars

\* producers identify with bodies whose port fields are any JSON integers an
\* int holds: negative, zero, positive
PortValues == {-1, 0, 1, 4150}
PortBodies ==
    {[GoodBody EXCEPT !.TCPPort = t, !.HTTPPort = h] : t, h \in PortValues}

PortsTcpStep(c) ==
    \/ \E a \in UsedAddrs \cup {FreshAddr} : Accept(c, a)
    \/ ReadError(c)
    \/ \E line \in Lines("IDENTIFY"), body \in PortBodies, sendOk \in BOOLEAN :
          IDENTIFY(c, line, body, sendOk)
    \/ \E line \in NodesLines, sendOk \in BOOLEAN : REGISTER(c, line, sendOk)
    \/ CleanupLookup(c)
    \/ \E r \in regs[c] : CleanupRemove(c, r)

NextPorts == \E c \in Conns : PortsTcpStep(c)

SpecPorts == InitTcp /\ [][NextPorts]_vars

\* producers identify with frames whose int32 body length is zero, negative,
\* larger than what follows, or the length of the body that follows (JSON or
\* not), while other connections register topics
FrameBodies ==
    {[kind |-> "zero_size"], [kind |-> "negative_size"], [kind |-> "short_body"],
     [kind |-> "bad_json"], GoodBody}

FramesTcpStep(c) ==
    \/ \E a \in UsedAddrs \cup {FreshAddr} : Accept(c, a)
    \/ ReadError(c)
    \/ \E line \in Lines("IDENTIFY"), body \in FrameBodies, sendOk \in BOOLEAN :
          IDENTIFY(c, line, body, sendOk)
    \/ \E line \in NodesLines, sendOk \in BOOLEAN : REGISTER(c, line, sendOk)
    \/ CleanupLookup(c)
    \/ \E r \in regs[c] : CleanupRemove(c, r)

NextFrames == \E c \in Conns : FramesTcpStep(c)

SpecFrames == InitTcp /\ [][NextFrames]_vars

\* producers identify, ping, register and unregister a topic while the clock
\* runs and /lookup and /topic/tombstone are served, from the same start as
\* SpecTime; no channel is registered, so REGISTER is over after its AddProducer
\* under the topic key and the range of UNREGISTER over the channel keys is empty
UpdateLines ==
    {[name |-> n, params |-> << >>] : n \in {"PING", "IDENTIFY"}}
    \cup {[name |-> "REGISTER", params |-> <<T2>>],
          [name |-> "UNREGISTER", params |-> <<T2>>]}
UpdateRequests ==
    {[path |-> "/lookup", topic |-> T2, channel |-> NoArg, node |-> NoArg]}
    \cup {[path |-> "/topic/tombstone", topic |-> T2, channel |-> NoArg,
           node |-> NodeOf(GoodBody.BroadcastAddress, GoodBody.HTTPPort)]}

UpdateTcpStep(c) ==
    \/ \E a \in UsedAddrs \cup {FreshAddr} : Accept(c, a)
    \/ ReadError(c)
    \/ \E line \in UpdateLines, sendOk \in BOOLEAN : PING(c, line, sendOk)
    \/ \E line \in UpdateLines, body \in TimeBodies, sendOk \in BOOLEAN :
          IDENTIFY(c, line, body, sendOk)
    \/ \E line \in UpdateLines, sendOk \in BOOLEAN : REGISTER(c, line, sendOk)
    \/ \E line \in UpdateLines, sendOk \in BOOLEAN : UNREGISTER(c, line, sendOk)
    \/ \E sendOk \in BOOLEAN : UnregisterTopic(c, sendOk)
    \/ CleanupLookup(c)
    \/ \E r \in regs[c] : CleanupRemove(c, r)

UpdateHttpStep(h) ==
    \/ \E req \in UpdateRequests : doLookup(h, req)
    \/ LookupChannels(h)
    \/ LookupProducers(h)
    \/ \E req \in UpdateRequests : doTombstoneTopicProducer(h, req)
    \/ TombstoneProducer(h)
    \/ TombstoneReturn(h)
    \/ HttpAgain(h)

NextUpdate ==
    \/ \E c \in Conns : UpdateTcpStep(c)
    \/ \E h \in Https : UpdateHttpStep(h)
    \/ Tick

SpecUpdate == InitTime /\ [][NextUpdate]_vars

(***************************************************************************)
(* The accept loops and Exit.  Main has started TCPServer and the HTTP     *)
(* server on their listeners, each wrapped in the waitGroup.               *)
(***************************************************************************)
\* TCPServer: listener.Accept() returns a connection, go handler.Handle(conn)
TCPServerAccept(c, a) ==
    /\ "TCPServer" \in lookupd.waitGroup
    /\ lookupd.tcpListener = "listening"
    /\ pc[c] = "none"
    /\ \A d \in Conns : d < c => pc[d] # "none"
    /\ a \in UsedAddrs \cup {FreshAddr}
    /\ \A d \in Conns : Open(d) => remoteAddr[d] # a
    /\ pc' = [pc EXCEPT ![c] = "read"]
    /\ remoteAddr' = [remoteAddr EXCEPT ![c] = a]
    /\ reply' = [reply EXCEPT ![c] = NoReply]
    /\ UNCHANGED <<registrationMap, peerInfo, cmd, regs, now, lookupd, marked, nsqadmin, hnodes, lockVars,
                   httpVars, ncmds>>

\* a TCPServer that gives up at a temporary failure
TCPServerTemporaryBreaks ==
    /\ "TCPServer" \in lookupd.waitGroup
    /\ lookupd.tcpListener = "listening"
    /\ lookupd.temporary < MaxAcceptErrors
    /\ lookupd' = [lookupd EXCEPT !.temporary = lookupd.temporary + 1,
                                  !.waitGroup = lookupd.waitGroup \ {"TCPServer"}]
    /\ UNCHANGED <<registrationMap, tcpVars, httpVars, hnodes, lockVars, now, marked, nsqadmin, ncmds>>

\* TCPServer: Accept() fails with a temporary net.Error: log, Gosched, continue
TCPServerTemporary ==
    /\ "TCPServer" \in lookupd.waitGroup
    /\ lookupd.tcpListener = "listening"
    /\ lookupd.temporary < MaxAcceptErrors
    /\ lookupd' = [lookupd EXCEPT !.temporary = lookupd.temporary + 1]
    /\ UNCHANGED <<registrationMap, tcpVars, httpVars, hnodes, lockVars, now, marked, nsqadmin, ncmds>>

\* TCPServer: Accept() fails with any other error while the listener listens:
\* break, and the wrapped goroutine is done
TCPServerError ==
    /\ "TCPServer" \in lookupd.waitGroup
    /\ lookupd.tcpListener = "listening"
    /\ lookupd' = [lookupd EXCEPT !.waitGroup = lookupd.waitGroup \ {"TCPServer"}]
    /\ UNCHANGED <<registrationMap, tcpVars, httpVars, hnodes, lockVars, now, marked, nsqadmin, ncmds>>

\* TCPServer: Accept() fails with "use of closed network connection": break
TCPServerClosed ==
    /\ "TCPServer" \in lookupd.waitGroup
    /\ lookupd.tcpListener = "closed"
    /\ lookupd' = [lookupd EXCEPT !.waitGroup = lookupd.waitGroup \ {"TCPServer"}]
    /\ UNCHANGED <<registrationMap, tcpVars, httpVars, hnodes, lockVars, now, marked, nsqadmin, ncmds>>

\* http_api.Serve: the HTTP accept loop returns once its listener is closed
ServeClosed ==
    /\ "Serve" \in lookupd.waitGroup
    /\ lookupd.httpListener = "closed"
    /\ lookupd' = [lookupd EXCEPT !.waitGroup = lookupd.waitGroup \ {"Serve"}]
    /\ UNCHANGED <<registrationMap, tcpVars, httpVars, hnodes, lockVars, now, marked, nsqadmin, ncmds>>

\* Exit: l.tcpListener.Close()
ExitCloseTcp ==
    /\ lookupd.exit = "none"
    /\ lookupd' = [lookupd EXCEPT !.tcpListener = "closed", !.exit = "tcp_closed"]
    /\ UNCHANGED <<registrationMap, tcpVars, httpVars, hnodes, lockVars, now, marked, nsqadmin, ncmds>>

\* Exit: l.httpListener.Close()
ExitCloseHttp ==
    /\ lookupd.exit = "tcp_closed"
    /\ lookupd' = [lookupd EXCEPT !.httpListener = "closed", !.exit = "waiting"]
    /\ UNCHANGED <<registrationMap, tcpVars, httpVars, hnodes, lockVars, now, marked, nsqadmin, ncmds>>

\* Exit: l.waitGroup.Wait() returns when every wrapped goroutine is done
ExitWait ==
    /\ lookupd.exit = "waiting"
    /\ lookupd.waitGroup = {}
    /\ lookupd' = [lookupd EXCEPT !.exit = "returned"]
    /\ UNCHANGED <<registrationMap, tcpVars, httpVars, hnodes, lockVars, now, marked, nsqadmin, ncmds>>

\* the handler goroutines go on while the loops run and stop
ExitTcpStep(c) ==
    \/ \E a \in UsedAddrs \cup {FreshAddr} : TCPServerAccept(c, a)
    \/ ReadError(c)
    \/ \E line \in LiveLines, sendOk \in BOOLEAN : PING(c, line, sendOk)
    \/ CleanupLookup(c)

NextExit ==
    \/ \E c \in Conns : ExitTcpStep(c)
    \/ TCPServerTemporary
    \/ TCPServerError
    \/ TCPServerClosed
    \/ ServeClosed
    \/ ExitCloseTcp
    \/ ExitCloseHttp
    \/ ExitWait

\* the Go scheduler runs every goroutine that can run: an accept loop whose
\* listener is closed gets its error, and Wait returns when the count is zero
SpecExit ==
    /\ Init /\ [][NextExit]_vars
    /\ WF_vars(TCPServerClosed) /\ WF_vars(ServeClosed) /\ WF_vars(ExitWait)

(***************************************************************************)
(* nsqadmin: the notification loop and Exit.  Main has started the HTTP    *)
(* server and handleAdminActions, each wrapped in the waitGroup.            *)
(***************************************************************************)
\* the admin actions the HTTP handlers send
AdminActions == {"pause_channel", "delete_topic"}

\* what httpclient.Post returns: a response and no error; no response and an
\* error; a response and an error (a redirect that CheckRedirect refused)
PostResults == {"ok", "error", "redirect_error"}

\* handleAdminActions: the range receives the action a handler sends
handleAdminActionsReceive(a) ==
    /\ nsqadmin.pc = "range"
    /\ nsqadmin.notifications = "open"
    /\ Len(nsqadmin.sent) < MaxActions
    /\ nsqadmin' = [nsqadmin EXCEPT !.pc = "post", !.action = a,
                                    !.sent = Append(nsqadmin.sent, a)]
    /\ UNCHANGED <<registrationMap, tcpVars, httpVars, hnodes, lockVars, now, lookupd, marked, ncmds>>

\* handleAdminActions: the loop body.  The action is serialized and posted; an
\* error of Post is logged; resp.Body.Close() then dereferences resp, which is
\* nil when Post returned no response: a panic that nothing recovers
handleAdminActionsPost(result) ==
    /\ nsqadmin.pc = "post"
    /\ nsqadmin' = [nsqadmin EXCEPT
           !.logged = IF result = "ok" THEN @ ELSE @ + 1,
           !.pc = IF result = "error" THEN "panic" ELSE "range",
           !.posted = IF result = "error" THEN @ ELSE Append(@, nsqadmin.action),
           !.action = NoAction]
    /\ UNCHANGED <<registrationMap, tcpVars, httpVars, hnodes, lockVars, now, lookupd, marked, ncmds>>

\* handleAdminActions: the range ends when the channel is closed
handleAdminActionsReturn ==
    /\ nsqadmin.pc = "range"
    /\ nsqadmin.notifications = "closed"
    /\ nsqadmin' = [nsqadmin EXCEPT
           !.pc = "returned",
           !.waitGroup = nsqadmin.waitGroup \ {"handleAdminActions"}]
    /\ UNCHANGED <<registrationMap, tcpVars, httpVars, hnodes, lockVars, now, lookupd, marked, ncmds>>

\* http_api.Serve: the HTTP accept loop returns once its listener is closed
AdminServeClosed ==
    /\ nsqadmin.pc # "panic"
    /\ "Serve" \in nsqadmin.waitGroup
    /\ nsqadmin.httpListener = "closed"
    /\ nsqadmin' = [nsqadmin EXCEPT !.waitGroup = nsqadmin.waitGroup \ {"Serve"}]
    /\ UNCHANGED <<registrationMap, tcpVars, httpVars, hnodes, lockVars, now, lookupd, marked, ncmds>>

\* NSQAdmin.Exit: n.httpListener.Close()
AdminExitCloseHttp ==
    /\ nsqadmin.pc # "panic"
    /\ nsqadmin.exit = "none"
    /\ nsqadmin' = [nsqadmin EXCEPT !.httpListener = "closed", !.exit = "http_closed"]
    /\ UNCHANGED <<registrationMap, tcpVars, httpVars, hnodes, lockVars, now, lookupd, marked, ncmds>>

\* NSQAdmin.Exit: close(n.notifications)
AdminExitCloseNotifications ==
    /\ nsqadmin.pc # "panic"
    /\ nsqadmin.exit = "http_closed"
    /\ nsqadmin' = [nsqadmin EXCEPT !.notifications = "closed", !.exit = "waiting"]
    /\ UNCHANGED <<registrationMap, tcpVars, httpVars, hnodes, lockVars, now, lookupd, marked, ncmds>>

\* NSQAdmin.Exit: n.waitGroup.Wait() returns when every wrapped goroutine is done
AdminExitWait ==
    /\ nsqadmin.pc # "panic"
    /\ nsqadmin.exit = "waiting"
    /\ nsqadmin.waitGroup = {}
    /\ nsqadmin' = [nsqadmin EXCEPT !.exit = "returned"]
    /\ UNCHANGED <<registrationMap, tcpVars, httpVars, hnodes, lockVars, now, lookupd, marked, ncmds>>

NextAdmin ==
    \/ \E a \in AdminActions : handleAdminActionsReceive(a)
    \/ \E result \in PostResults : handleAdminActionsPost(result)
    \/ handleAdminActionsReturn
    \/ AdminServeClosed
    \/ AdminExitCloseHttp
    \/ AdminExitCloseNotifications
    \/ AdminExitWait

SpecAdmin == Init /\ [][NextAdmin]_vars

(***************************************************************************)
(* The store's lock.  In the specifications above every store operation is *)
(* one step; here goroutines call single store operations and take the     *)
(* steps of one operation one by one: the Lock or RLock the operation       *)
(* starts with, what it reads, what it writes, and the deferred unlock.     *)
(***************************************************************************)
WriteOps == {"AddRegistration", "AddProducer", "RemoveProducer", "RemoveRegistration"}
ReadOps == {"FindRegistrations", "FindProducers", "LookupRegistrations", "doDebug"}
\* the handler that calls FindProducers and then Tombstone() on what it found
TombstoneOp == "doTombstoneTopicProducer"
LockKeys == {TopicKey(T1), ChannelKey(T1, Ch1)}

\* the calls a goroutine can make: the operation, its key and the connection
\* whose producer or id it passes
Calls ==
    {[name |-> n, key |-> k, peer |-> 0] :
        n \in {"AddRegistration", "RemoveRegistration"} \cup ReadOps, k \in LockKeys}
    \cup {[name |-> n, key |-> k, peer |-> c] :
        n \in {"AddProducer", "RemoveProducer"}, k \in LockKeys, c \in Conns}
    \cup {[name |-> TombstoneOp, key |-> TopicKey(T1), peer |-> c] : c \in Conns}

\* the goroutine is between the lock and the unlock of its operation
Inside(w) == ops[w].pc \in {"locked", "read", "written"}

\* sync.RWMutex.Lock as a mutex that lets readers by
LockAmongReaders(w, call) ==
    /\ ops[w].pc = "idle"
    /\ \A v \in Workers : v < w => ops[v].pc # "idle"
    /\ call.name \in WriteOps
    /\ call.peer # 0 => peerInfo[call.peer] # NULL
    /\ mu.writer = 0
    /\ mu' = [mu EXCEPT !.writer = w]
    /\ ops' = [ops EXCEPT ![w] = [NoOp EXCEPT !.name = call.name, !.key = call.key,
                                              !.peer = call.peer, !.pc = "locked"]]
    /\ UNCHANGED <<registrationMap, tcpVars, httpVars, hnodes, now, lookupd, marked, nsqadmin, ncmds>>

\* r.Lock(): returns when no goroutine holds the lock, for reading or writing
Lock(w, call) ==
    /\ ops[w].pc = "idle"
    /\ \A v \in Workers : v < w => ops[v].pc # "idle"
    /\ call.name \in WriteOps
    /\ call.peer # 0 => peerInfo[call.peer] # NULL
    /\ mu.writer = 0 /\ mu.readers = {}
    /\ mu' = [mu EXCEPT !.writer = w]
    /\ ops' = [ops EXCEPT ![w] = [NoOp EXCEPT !.name = call.name, !.key = call.key,
                                              !.peer = call.peer, !.pc = "locked"]]
    /\ UNCHANGED <<registrationMap, tcpVars, httpVars, hnodes, now, lookupd, marked, nsqadmin, ncmds>>

\* r.RLock(): returns when no goroutine holds the lock for writing
RLock(w, call) ==
    /\ ops[w].pc = "idle"
    /\ \A v \in Workers : v < w => ops[v].pc # "idle"
    /\ call.name \in ReadOps \cup {TombstoneOp}
    /\ call.peer # 0 => peerInfo[call.peer] # NULL
    /\ mu.writer = 0
    /\ mu' = [mu EXCEPT !.readers = mu.readers \cup {w}]
    /\ ops' = [ops EXCEPT ![w] = [NoOp EXCEPT !.name = call.name, !.key = call.key,
                                              !.peer = call.peer, !.pc = "locked"]]
    /\ UNCHANGED <<registrationMap, tcpVars, httpVars, hnodes, now, lookupd, marked, nsqadmin, ncmds>>

\* the operation reads the map: the lookup of its key, or its range over the map
StoreRead(w) ==
    /\ ops[w].pc = "locked"
    /\ ops[w].name # "RemoveRegistration"
    /\ ops' = [ops EXCEPT ![w].pc = "read", ![w].seen = registrationMap]
    /\ UNCHANGED <<registrationMap, tcpVars, httpVars, hnodes, now, lookupd, marked, nsqadmin, mu, ncmds>>

\* the entry the map holds now for the object that entry e was read from
Current(m, k, e) ==
    IF k \in DOMAIN m /\ \E i \in 1..Len(m[k]) : m[k][i].peer = e.peer
    THEN m[k][CHOOSE i \in 1..Len(m[k]) : m[k][i].peer = e.peer]
    ELSE e
Currents(m, k, ee) == [i \in 1..Len(ee) |-> Current(m, k, ee[i])]

\* what the operation assigns to the map, from what it read
Written(m, op) ==
    LET k == op.key
        producers == IF k \in DOMAIN op.seen THEN Currents(m, k, op.seen[k]) ELSE << >>
    IN  IF op.name = "AddRegistration"
        THEN IF k \in DOMAIN op.seen THEN m ELSE MapPut(m, k, << >>)
        ELSE IF op.name = "AddProducer"
        THEN IF AddProducerFound(op.seen, k, NewProducer(op.peer)) THEN m
             ELSE MapPut(m, k, Append(producers, NewProducer(op.peer)))
        ELSE IF op.name = "RemoveProducer"
        THEN IF k \in DOMAIN op.seen
             THEN MapPut(m, k, Cleaned(producers, remoteAddr[op.peer]))
             ELSE m
        ELSE [x \in DOMAIN m \ {k} |-> m[x]]

\* the operation's assignment to the map (delete for RemoveRegistration)
StoreWrite(w) ==
    /\ ops[w].name \in WriteOps
    /\ ops[w].pc = IF ops[w].name = "RemoveRegistration" THEN "locked" ELSE "read"
    /\ registrationMap' = Written(registrationMap, ops[w])
    /\ ops' = [ops EXCEPT ![w].pc = "written"]
    /\ Detach
    /\ UNCHANGED <<tcpVars, httpCtl, hnodes, now, lookupd, marked, nsqadmin, mu, ncmds>>

\* the deferred r.Unlock()
Unlock(w) ==
    /\ ops[w].name \in WriteOps
    /\ ops[w].pc = "written"
    /\ mu' = [mu EXCEPT !.writer = 0]
    /\ ops' = [ops EXCEPT ![w].pc = "done"]
    /\ UNCHANGED <<registrationMap, tcpVars, httpVars, hnodes, now, lookupd, marked, nsqadmin, ncmds>>

\* the deferred r.RUnlock(); the tombstone handler goes on with what
\* FindProducers returned
RUnlock(w) ==
    /\ ops[w].name \in ReadOps \cup {TombstoneOp}
    /\ ops[w].pc = "read"
    /\ mu' = [mu EXCEPT !.readers = mu.readers \ {w}]
    /\ ops' = [ops EXCEPT ![w].pc = IF ops[w].name = TombstoneOp THEN "returned" ELSE "done"]
    /\ UNCHANGED <<registrationMap, tcpVars, httpVars, hnodes, now, lookupd, marked, nsqadmin, ncmds>>

\* doTombstoneTopicProducer after FindProducers has returned: p.Tombstone() on
\* the producer found (nothing to write when it was not found, or when the
\* object has left the map since)
TombstoneWrite(w) ==
    /\ ops[w].name = TombstoneOp
    /\ ops[w].pc = "returned"
    /\ LET k == ops[w].key
           ptr == Pointer(k, ops[w].peer)
       IN  IF /\ ops[w].peer \in PeersUnder(ops[w].seen, k)
              /\ ops[w].peer \in PeersUnder(registrationMap, k)
           THEN /\ registrationMap' =
                    [registrationMap EXCEPT ![k][Index(registrationMap, ptr)] =
                         Tombstone(Deref(registrationMap, ptr))]
                /\ marked' = Mark(marked, ptr)
           ELSE UNCHANGED <<registrationMap, marked>>
    /\ ops' = [ops EXCEPT ![w].pc = "done"]
    /\ UNCHANGED <<tcpVars, httpVars, hnodes, now, lookupd, nsqadmin, mu, ncmds>>

LockStep(w) ==
    \/ \E call \in Calls : Lock(w, call)
    \/ \E call \in Calls : RLock(w, call)
    \/ StoreRead(w)
    \/ StoreWrite(w)
    \/ Unlock(w)
    \/ RUnlock(w)
    \/ TombstoneWrite(w)

NextLock == \E w \in Workers : LockStep(w)

SpecLock == InitTime /\ [][NextLock]_vars

(***************************************************************************)
(* Properties.                                                             *)
(***************************************************************************)
Identified(c) == peerInfo[c] # NULL

\* the number of entries with this id under key k
Count(m, k, id) ==
    IF k \in DOMAIN m
    THEN Cardinality({i \in 1..Len(m[k]) : ProducerId(m[k][i]) = id})
    ELSE 0

\* C1, as claimed: at the step that ends the disconnect cleanup of a connection
\* that completed IDENTIFY, LookupRegistrations of its id is empty.
C1_LookupEmptyAfterCleanup ==
    [][\A c \in Conns :
          (pc[c] # "done" /\ pc'[c] = "done" /\ Identified(c))
              => LookupRegistrations(registrationMap', peerInfo[c].id) = {}]_vars

\* C1, amended: once the disconnect cleanup of a connection has finished, no
\* registration holds an entry of that connection's producer, and
\* LookupRegistrations of its id is empty unless another connection came from
\* the same remote address.
C1_OwnEntriesGoneAfterCleanup ==
    \A c \in Conns :
        (pc[c] = "done" /\ Identified(c))
            => /\ \A k \in DOMAIN registrationMap : c \notin PeersUnder(registrationMap, k)
               /\ (\A d \in Conns \ {c} : remoteAddr[d] # remoteAddr[c])
                      => LookupRegistrations(registrationMap, peerInfo[c].id) = {}

\* a connection finished its cleanup after registering nothing but itself,
\* while a later connection from the same address holds a topic registration
C1_Witness ==
    \E c, d \in Conns :
        /\ c # d
        /\ pc[c] = "done" /\ Identified(c)
        /\ remoteAddr[d] = remoteAddr[c] /\ Open(d)
        /\ d \in PeersUnder(registrationMap, TopicKey(T1))

\* C2: no registration lists two producers with the same id, and AddProducer of
\* an id already listed under the key leaves the map as it is.
C2_UniqueIds ==
    /\ \A k \in DOMAIN registrationMap :
          \A i, j \in 1..Len(registrationMap[k]) :
              ProducerId(registrationMap[k][i]) = ProducerId(registrationMap[k][j]) => i = j
    /\ \A k \in DOMAIN registrationMap : \A c \in Conns :
          (pc[c] # "none" /\ remoteAddr[c] \in IdsUnder(registrationMap, k))
              => AddProducer(registrationMap, k, NewProducer(c)) = registrationMap

\* a REGISTER with a channel is about to call AddProducer for a topic key that
\* already lists the producer
C2_Witness ==
    \E c \in Conns :
        /\ pc[c] = "reg_topic"
        /\ remoteAddr[c] \in IdsUnder(registrationMap, TopicKey(topicOf(cmd[c].params)))

\* C3: an id is listed under ("client","","") if and only if a connection with
\* that id has completed IDENTIFY and is still open.  Every open connection
\* that has completed IDENTIFY is listed, also one that identified while the
\* cleanup of an earlier connection was pending; and every id listed is that of
\* a connection that completed IDENTIFY (the time between conn.Close() and the
\* end of the cleanup is counted to the connection's life here).
C3_LiveConnectionsListed ==
    /\ \A c \in Conns :
          (Open(c) /\ Identified(c)) => remoteAddr[c] \in IdsUnder(registrationMap, ClientKey)
    /\ \A id \in IdsUnder(registrationMap, ClientKey) :
          \E c \in Conns : Identified(c) /\ remoteAddr[c] = id /\ pc[c] # "done"

\* the topic and channel registrations that list the id of connection c
RegsOf(c, m) ==
    {k \in DOMAIN m : k.Category \in {"topic", "channel"} /\ remoteAddr[c] \in IdsUnder(m, k)}

\* C4: the topic and channel registrations that list an identified, connected
\* producer are those its own REGISTER and UNREGISTER commands imply, so no
\* step of anybody else changes them, and the producer is listed exactly once
\* under ("client","","").
C4_OnlyOwnCommands ==
    [][\A c \in Conns :
          (Open(c) /\ Identified(c) /\ ~TcpStep(c))
              => /\ RegsOf(c, registrationMap') = RegsOf(c, registrationMap)
                 /\ Count(registrationMap', ClientKey, remoteAddr[c]) = 1]_vars

\* C5: a key leaves the map only in a RemoveRegistration of /topic/delete or
\* /channel/delete, or in the RemoveRegistration of an UNREGISTER of an
\* "#ephemeral" channel whose RemoveProducer left no producer under it; no
\* other step (disconnect cleanup included) removes a key.
C5_KeysRemovedOnlyByDelete ==
    [][/\ \A k \in DOMAIN registrationMap :
             k \notin DOMAIN registrationMap'
                 => \/ \E h \in Https :
                          /\ hpc[h] \in {"delete_topic_channels", "delete_topic_topics",
                                         "delete_channel"}
                          /\ k \in hregs[h]
                          /\ k \notin hregs'[h]
                    \/ \E c \in Conns :
                          /\ pc[c] = "unreg_rmreg"
                          /\ pc'[c] # "unreg_rmreg"
                          /\ k = ChannelKey(topicOf(cmd[c].params), channelOf(cmd[c].params))
                          /\ HasSuffix(k.SubKey, EphemeralSuffix)
       /\ \A c \in Conns :
             (pc[c] # "unreg_rmreg" /\ pc'[c] = "unreg_rmreg")
                 => IdsUnder(registrationMap',
                             ChannelKey(topicOf(cmd'[c].params), channelOf(cmd'[c].params))) = {}
      ]_vars

\* the cleanup of a producer that was alone under an ephemeral channel has
\* finished and the channel key is still there, with no producer
C5_Witness ==
    \E c \in Conns :
        /\ pc[c] = "done" /\ Identified(c)
        /\ \A h \in Https : hpc[h] = "none"
        /\ ChannelKey(T1, ChE) \in DOMAIN registrationMap
        /\ registrationMap[ChannelKey(T1, ChE)] = << >>

\* C6: /lookup?topic=T answers 404 TOPIC_NOT_FOUND exactly when no
\* ("topic",T,"") registration exists when the request looks the topic up;
\* otherwise it answers 200, with no producers when the topic key lists none.
C6_LookupNotFoundIff ==
    [][\A h \in Https :
          /\ \A req \in Requests("/lookup") :
                (req.topic # NoArg /\ doLookup(h, req))
                    => ((hresp'[h].code = 404)
                            <=> (TopicKey(req.topic) \notin DOMAIN registrationMap))
          /\ LookupProducers(h)
                 => /\ hresp'[h].code = 200
                    /\ hresp'[h].channels = hresp[h].channels
                    /\ IdsUnder(registrationMap, TopicKey(hreq[h].topic)) = {}
                           => hresp'[h].producers = << >>
      ]_vars

\* the keys of one category are the same, with the same lists, before and after
SameCategory(category) ==
    \A k \in DOMAIN registrationMap \cup DOMAIN registrationMap' :
        k.Category = category
            => /\ k \in DOMAIN registrationMap
               /\ k \in DOMAIN registrationMap'
               /\ registrationMap'[k] = registrationMap[k]

\* C7: REGISTER T C by an identified producer lists it once under
\* ("channel",T,C) and goes on to list it once under ("topic",T,""); REGISTER T
\* lists it once under ("topic",T,"") and touches no channel key; so after
\* REGISTER T c1 and REGISTER T c2 the producer has one entry under the topic
\* key and one under each channel key.
C7_RegisterAddsOnce ==
    [][/\ \A c \in Conns : \A line \in Lines("REGISTER") : \A sendOk \in BOOLEAN :
             (REGISTER(c, line, sendOk) /\ Identified(c) /\ getTopicChanErr(line.params) = NoReply)
                 => IF channelOf(line.params) # Empty
                    THEN /\ Count(registrationMap',
                                  ChannelKey(topicOf(line.params), channelOf(line.params)),
                                  remoteAddr[c]) = 1
                         /\ pc'[c] = "reg_topic"
                         /\ cmd'[c] = line
                         /\ SameCategory("topic")
                    ELSE /\ Count(registrationMap', TopicKey(topicOf(line.params)),
                                  remoteAddr[c]) = 1
                         /\ SameCategory("channel")
       /\ \A c \in Conns : \A sendOk \in BOOLEAN :
             RegisterTopic(c, sendOk)
                 => /\ Count(registrationMap', TopicKey(topicOf(cmd[c].params)),
                             remoteAddr[c]) = 1
                    /\ SameCategory("channel")
                    /\ reply'[c] = OK
      ]_vars

\* a producer registered the topic with two channels and has one entry under
\* the topic key and one under each channel key
C7_Witness ==
    \E c \in Conns :
        /\ pc[c] = "read" /\ reply[c] = OK
        /\ Count(registrationMap, TopicKey(T1), remoteAddr[c]) = 1
        /\ Count(registrationMap, ChannelKey(T1, Ch1), remoteAddr[c]) = 1
        /\ Count(registrationMap, ChannelKey(T1, ChE), remoteAddr[c]) = 1
        /\ Len(registrationMap[TopicKey(T1)]) = 1

\* C8: UNREGISTER T C by the only producer listed under ("channel",T,C) leaves
\* the key with an empty list, and the command ends there when C does not end
\* in "#ephemeral"; when it does, the command goes on to remove the key.
C8_LastProducerUnregisters ==
    [][/\ \A c \in Conns : \A line \in Lines("UNREGISTER") : \A sendOk \in BOOLEAN :
             (/\ UNREGISTER(c, line, sendOk)
              /\ Identified(c)
              /\ getTopicChanErr(line.params) = NoReply
              /\ channelOf(line.params) # Empty
              /\ IdsUnder(registrationMap,
                          ChannelKey(topicOf(line.params), channelOf(line.params)))
                     = {remoteAddr[c]})
                 => LET key == ChannelKey(topicOf(line.params), channelOf(line.params))
                    IN  /\ key \in DOMAIN registrationMap'
                        /\ registrationMap'[key] = << >>
                        /\ IF channelOf(line.params) = ChE
                           THEN pc'[c] = "unreg_rmreg" /\ cmd'[c] = line
                           ELSE pc'[c] # "unreg_rmreg" /\ reply'[c] = OK
       /\ \A c \in Conns :
             (pc[c] = "unreg_rmreg" /\ pc'[c] \in {"read", "closed"})
                 => /\ ChannelKey(topicOf(cmd[c].params), channelOf(cmd[c].params))
                           \notin DOMAIN registrationMap'
                    /\ reply'[c] = OK
      ]_vars

\* a producer was the last to leave an ordinary channel, whose key stays with
\* no producer, and then an ephemeral one, whose key its UNREGISTER has emptied
\* and is about to remove
C8_Witness ==
    \E c \in Conns :
        /\ pc[c] = "unreg_rmreg"
        /\ cmd[c].params = <<T1, ChE>>
        /\ remoteAddr[c] \in IdsUnder(registrationMap, TopicKey(T1))
        /\ ChannelKey(T1, ChE) \in DOMAIN registrationMap
        /\ registrationMap[ChannelKey(T1, ChE)] = << >>
        /\ ChannelKey(T1, Ch1) \in DOMAIN registrationMap
        /\ registrationMap[ChannelKey(T1, Ch1)] = << >>

\* C9: when a topic-level UNREGISTER T replies, the producer's id is under no
\* ("channel",T,*) key and not under ("topic",T,""); the steps of the command
\* remove no key, no entry of another id, and nothing under another topic or
\* under ("client","","").
C9_TopicUnregister ==
    [][\A c \in Conns :
          /\ (pc[c] = "unreg_loop" /\ pc'[c] \in {"read", "closed"})
                 => /\ reply'[c] = OK
                    /\ \A k \in DOMAIN registrationMap' :
                          (k.Category \in {"channel", "topic"}
                           /\ k.Key = topicOf(cmd[c].params))
                              => remoteAddr[c] \notin IdsUnder(registrationMap', k)
          /\ ((pc[c] = "unreg_loop" \/ pc'[c] = "unreg_loop")
              /\ (pc'[c] # pc[c] \/ regs'[c] # regs[c]))
                 => /\ DOMAIN registrationMap' = DOMAIN registrationMap
                    /\ \A k \in DOMAIN registrationMap :
                          /\ Cleaned(registrationMap'[k], remoteAddr[c])
                                 = Cleaned(registrationMap[k], remoteAddr[c])
                          /\ (k.Category = "client"
                              \/ k.Key # topicOf((IF pc[c] = "unreg_loop" THEN cmd ELSE cmd')[c].params))
                                 => registrationMap'[k] = registrationMap[k]
      ]_vars

\* the range of a topic-level UNREGISTER is over: the channel key lists the
\* other producer only, the topic key still lists both
C9_Witness ==
    \E c, d \in Conns :
        /\ remoteAddr[c] # remoteAddr[d]
        /\ pc[c] = "unreg_loop" /\ regs[c] = {}
        /\ IdsUnder(registrationMap, ChannelKey(T1, Ch1)) = {remoteAddr[d]}
        /\ IdsUnder(registrationMap, TopicKey(T1)) = {remoteAddr[c], remoteAddr[d]}
        /\ remoteAddr[c] \in IdsUnder(registrationMap, ClientKey)

ErrorCodes == {"E_INVALID", "E_BAD_BODY", "E_BAD_TOPIC", "E_BAD_CHANNEL"}
Closed(c) == pc[c] \in {"closed", "cleanup", "done"}

\* the names of a REGISTER or UNREGISTER line are missing or not valid
BadNames(params) ==
    \/ Len(params) = 0
    \/ ~IsValidTopicName(params[1])
    \/ Len(params) >= 2 /\ ~IsValidChannelName(params[2])

\* the step of connection c executes a command that must fail
FailingCommand(c) ==
    \/ \E line \in Lines("FOO") : InvalidCommand(c, line)
    \/ \E line \in Lines("IDENTIFY"), body \in IdentifyBodies, sendOk \in BOOLEAN :
          /\ IDENTIFY(c, line, body, sendOk)
          /\ \/ Identified(c)
             \/ body.kind \in {"no_size", "short_body", "bad_json"}
             \/ /\ body.kind = "json"
                /\ \/ body.BroadcastAddress = "" \/ body.TCPPort = 0
                   \/ body.HTTPPort = 0 \/ body.Version = ""
    \/ \E line \in Lines("REGISTER"), sendOk \in BOOLEAN :
          REGISTER(c, line, sendOk) /\ (~Identified(c) \/ BadNames(line.params))
    \/ \E line \in Lines("UNREGISTER"), sendOk \in BOOLEAN :
          UNREGISTER(c, line, sendOk) /\ (~Identified(c) \/ BadNames(line.params))

\* C10: a command that fails (unknown command, second IDENTIFY, bad IDENTIFY
\* body, missing or invalid topic or channel name, REGISTER or UNREGISTER before
\* IDENTIFY) writes an error reply, closes the connection and changes no
\* registration; a closed connection executes no command again.
C10_ErrorsAreFatal ==
    [][\A c \in Conns :
          /\ FailingCommand(c)
                 => /\ reply'[c].code \in ErrorCodes
                    /\ pc'[c] = "closed"
                    /\ registrationMap' = registrationMap
                    /\ peerInfo' = peerInfo
          /\ Closed(c)
                 => /\ pc'[c] \in {"closed", "cleanup", "done", "panic"}
                    /\ reply'[c] \in {reply[c], NoReply}
                    /\ peerInfo'[c] = peerInfo[c]
                    /\ \A k \in DOMAIN registrationMap' :
                          Count(registrationMap', k, remoteAddr[c])
                              > Count(registrationMap, k, remoteAddr[c])
                                 => \E d \in Conns \ {c} :
                                        remoteAddr[d] = remoteAddr[c] /\ ~Closed(d)
      ]_vars

\* an identified connection was closed on a REGISTER with an invalid topic name
C10_Witness ==
    \E c \in Conns :
        pc[c] = "closed" /\ reply[c].code = "E_BAD_TOPIC" /\ Identified(c)

\* the IDENTIFY frame carries no body that can be read and decoded into a
\* PeerInfo with every required field
UnusableBody(body) ==
    \/ body.kind \in {"no_size", "negative_size", "short_body", "bad_json"}
    \/ /\ body.kind = "json"
       /\ \/ body.BroadcastAddress = "" \/ body.TCPPort = 0
          \/ body.HTTPPort = 0 \/ body.Version = ""

\* C11: an IDENTIFY on a connection that has not identified, whose body cannot
\* be read or decoded or lacks a required field, replies E_BAD_BODY, closes the
\* connection, leaves it un-identified and the store unchanged; the cleanup of
\* a connection that never identified removes nothing.
C11_BadIdentifyRejected ==
    [][\A c \in Conns :
          /\ \A line \in Lines("IDENTIFY"), body \in IdentifyBodies, sendOk \in BOOLEAN :
                (IDENTIFY(c, line, body, sendOk) /\ ~Identified(c) /\ UnusableBody(body))
                    => /\ reply'[c].code = "E_BAD_BODY"
                       /\ pc'[c] = "closed"
                       /\ peerInfo'[c] = NULL
                       /\ registrationMap' = registrationMap
          /\ (CleanupLookup(c) /\ ~Identified(c))
                => /\ pc'[c] = "done"
                   /\ registrationMap' = registrationMap
      ]_vars

\* the same statement for the bodies IDENTIFY answers with an error: every
\* unusable body except a negative size
C11_ErrorBodiesRejected ==
    [][\A c \in Conns :
          /\ \A line \in Lines("IDENTIFY"), body \in IdentifyBodies, sendOk \in BOOLEAN :
                (IDENTIFY(c, line, body, sendOk) /\ ~Identified(c)
                    /\ UnusableBody(body) /\ body.kind # "negative_size")
                    => /\ reply'[c].code = "E_BAD_BODY"
                       /\ pc'[c] = "closed"
                       /\ peerInfo'[c] = NULL
                       /\ registrationMap' = registrationMap
          /\ (CleanupLookup(c) /\ ~Identified(c))
                => /\ pc'[c] = "done"
                   /\ registrationMap' = registrationMap
      ]_vars

\* C12: PING replies OK and changes no registration; the connection stays in
\* its read loop once the reply is written (only a failed write of the reply
\* ends the loop).  On an identified connection the only change is that the
\* connection's PeerInfo gets lastUpdate = now; on a connection that has not
\* identified nothing changes and the connection is still un-identified and
\* reading, so that it can IDENTIFY.
C12_PingTouchesOnlyLastUpdate ==
    [][\A c \in Conns, sendOk \in BOOLEAN :
          (\E line \in TimeLines : PING(c, line, sendOk))
              => /\ reply'[c] = OK
                 /\ pc'[c] = IF sendOk THEN "read" ELSE "closed"
                 /\ registrationMap' = registrationMap
                 /\ remoteAddr' = remoteAddr /\ regs' = regs /\ now' = now
                 /\ hpc' = hpc /\ hreq' = hreq /\ hresp' = hresp /\ hprods' = hprods
                 /\ \A d \in Conns \ {c} :
                       peerInfo'[d] = peerInfo[d] /\ pc'[d] = pc[d] /\ reply'[d] = reply[d]
                 /\ IF Identified(c)
                    THEN peerInfo'[c] = [peerInfo[c] EXCEPT !.lastUpdate = now]
                    ELSE peerInfo'[c] = NULL
      ]_vars

\* the only command read so far was a PING on an identified connection, after
\* the clock had advanced: its lastUpdate is the current time
C12_Witness ==
    \E c \in Conns :
        /\ ncmds = MaxCmdsTime - 1
        /\ reply[c] = OK /\ pc[c] = "read" /\ Identified(c)
        /\ now > 0 /\ peerInfo[c].lastUpdate = now

\* a connection that has not identified was answered OK and is still reading
C12_WitnessUnidentified ==
    \E c \in Conns : reply[c] = OK /\ pc[c] = "read" /\ ~Identified(c)

\* the PeerInfo pointers a response lists
Listed(resp) == {resp.producers[i] : i \in 1..Len(resp.producers)}

\* the entries of the producers under key k, none when the key is missing
EntriesUnder(m, k) == IF k \in DOMAIN m THEN {m[k][i] : i \in 1..Len(m[k])} ELSE {}

\* less than the tombstone lifetime has elapsed since entry e was tombstoned
Hidden(e) == e.tombstoned /\ now - e.tombstonedAt < TombstoneLifetime

\* the producer of entry e is within the inactivity timeout
Active(e) == now - peerInfo[e.peer].lastUpdate <= InactiveProducerTimeout

\* C13: /topic/tombstone for topic T and node n marks every producer it found
\* under ("topic",T,"") whose broadcast_address:http_port is n, with the time
\* of the tombstone; /lookup?topic=T omits a producer of T while less than
\* TombstoneLifetime has elapsed since it was tombstoned, and lists every
\* other producer of T that is within the inactivity timeout, a tombstoned one
\* whose lifetime has elapsed included.
C13_TombstoneHidesForLifetime ==
    [][\A h \in Https :
          /\ \A req \in TimeRequests :
                (doTombstoneTopicProducer(h, req) /\ hpc'[h] = "tombstone")
                    => {hprods'[h][i] : i \in 1..Len(hprods'[h])}
                          = {Pointer(TopicKey(req.topic), e.peer) :
                                e \in {x \in EntriesUnder(registrationMap, TopicKey(req.topic)) :
                                          NodeOf(peerInfo[x.peer].BroadcastAddress,
                                                 peerInfo[x.peer].HTTPPort) = req.node}}
          /\ TombstoneProducer(h)
                => LET ptr == Head(hprods[h])
                   IN  /\ ptr.key = TopicKey(hreq[h].topic)
                       /\ Deref(registrationMap', ptr).tombstoned
                       /\ Deref(registrationMap', ptr).tombstonedAt = now
          /\ LookupProducers(h)
                => \A e \in EntriesUnder(registrationMap, TopicKey(hreq[h].topic)) :
                      /\ Hidden(e) => e.peer \notin Listed(hresp'[h])
                      /\ (~Hidden(e) /\ Active(e)) => e.peer \in Listed(hresp'[h])
      ]_vars

\* a lookup of t lists two producers: one that was tombstoned at least
\* TombstoneLifetime ago, and one of another node that never was (and that is
\* not a producer of u)
C13_Witness ==
    \E h \in Https, e, f \in EntriesUnder(registrationMap, TopicKey(T1)) :
        /\ hpc[h] = "responded" /\ hresp[h].code = 200
        /\ Listed(hresp[h]) = {e.peer, f.peer}
        /\ e.tombstoned /\ now - e.tombstonedAt >= TombstoneLifetime
        /\ ~f.tombstoned
        /\ f.peer \notin {x.peer : x \in EntriesUnder(registrationMap, TopicKey(T2))}

\* a lookup of t lists the producer of the other node and omits the one that
\* was tombstoned less than TombstoneLifetime ago
C13_WitnessHidden ==
    \E h \in Https, e, f \in EntriesUnder(registrationMap, TopicKey(T1)) :
        /\ hpc[h] = "responded" /\ hresp[h].code = 200
        /\ Listed(hresp[h]) = {f.peer}
        /\ Hidden(e) /\ Active(e)
        /\ ~f.tombstoned
        /\ f.peer \notin {x.peer : x \in EntriesUnder(registrationMap, TopicKey(T2))}

\* the entries that refer to connection c, with the registration of each
EntriesOf(m, c) ==
    UNION {{[key |-> k, entry |-> e] : e \in {x \in EntriesUnder(m, k) : x.peer = c}} :
              k \in DOMAIN m}

\* C14 as stated: the entries that refer to one producer connection are one
\* object, so they always show the same tombstone state.
C14_OneSharedObject ==
    \A c \in Conns : \A x, y \in EntriesOf(registrationMap, c) :
        /\ x.entry.tombstoned = y.entry.tombstoned
        /\ x.entry.tombstonedAt = y.entry.tombstonedAt

\* C14, amended: the entries that refer to one producer connection share its
\* PeerInfo, so the last_update a PING writes is the one read through each of
\* them; every registration has a Producer of its own, so a tombstone changes
\* the entry under the registration it was made through and no other entry.
C14_SharedPeerInfoOwnTombstone ==
    [][/\ \A c \in Conns :
             (Identified(c) /\ \E line \in TimeLines, sendOk \in BOOLEAN : PING(c, line, sendOk))
                 => /\ registrationMap' = registrationMap
                    /\ \A x \in EntriesOf(registrationMap', c) :
                          peerInfo'[x.entry.peer].lastUpdate = now
       /\ \A h \in Https :
             TombstoneProducer(h)
                 => LET ptr == Head(hprods[h])
                    IN  /\ DOMAIN registrationMap' = DOMAIN registrationMap
                        /\ \A k \in DOMAIN registrationMap :
                              /\ Len(registrationMap'[k]) = Len(registrationMap[k])
                              /\ \A i \in 1..Len(registrationMap[k]) :
                                    (k # ptr.key \/ i # Index(registrationMap, ptr))
                                        => registrationMap'[k][i] = registrationMap[k][i]
      ]_vars

\* a producer is tombstoned under topic t and, at the same time, not
\* tombstoned under topic u and under ("client","","")
C14_Witness ==
    \E c \in Conns : \E x, y, z \in EntriesOf(registrationMap, c) :
        /\ x.key = TopicKey(T1) /\ x.entry.tombstoned
        /\ y.key = TopicKey(T2) /\ ~y.entry.tombstoned
        /\ z.key = ClientKey /\ ~z.entry.tombstoned

\* connection c has an entry under a topic other than topic that is inside
\* its tombstone lifetime
HiddenElsewhere(c, topic) ==
    \E x \in EntriesOf(registrationMap, c) :
        /\ x.key.Category = "topic" /\ x.key # TopicKey(topic)
        /\ Hidden(x.entry)

\* C15: a tombstone made for topic T writes to entries under ("topic",T,"")
\* only, and /lookup of a topic lists every active producer of that topic
\* that is not tombstoned for that topic, whatever topics it is tombstoned for
\* elsewhere.
C15_TombstoneScopedToTopic ==
    [][\A h \in Https :
          /\ TombstoneProducer(h)
                => \A k \in DOMAIN registrationMap :
                      k # TopicKey(hreq[h].topic) => registrationMap'[k] = registrationMap[k]
          /\ LookupProducers(h)
                => \A e \in EntriesUnder(registrationMap, TopicKey(hreq[h].topic)) :
                      (HiddenElsewhere(e.peer, hreq[h].topic) /\ ~e.tombstoned /\ Active(e))
                          => e.peer \in Listed(hresp'[h])
      ]_vars

\* a lookup lists a producer that is, at that moment, inside its tombstone
\* lifetime under topic t: the lookup was of topic u
C15_Witness ==
    \E h \in Https, c \in Conns :
        /\ hpc[h] = "responded" /\ hresp[h].code = 200
        /\ c \in Listed(hresp[h])
        /\ HiddenElsewhere(c, T2)
        /\ \E e \in EntriesUnder(registrationMap, TopicKey(T2)) : e.peer = c /\ ~e.tombstoned

\* the topics under which id is registered
TopicsOf(m, id) == KeysOf({r \in LookupRegistrations(m, id) : r.Category = "topic"})

\* C16: /nodes lists every active producer of ("client","","") whether or not
\* it is tombstoned; for each node listed, topics holds that producer's own
\* topic registrations and tombstones[j] tells whether that producer is
\* tombstoned for topics[j].
C16_NodesOwnTopicsAndTombstones ==
    [][\A h \in Https :
          /\ (\E req \in NodesRequests : doNodes(h, req))
                => {hnodes'[h].producers[i] : i \in 1..Len(hnodes'[h].producers)}
                      = {e.peer : e \in {x \in EntriesUnder(registrationMap, ClientKey) : Active(x)}}
          /\ NodesReturn(h)
                => \A i \in 1..Len(hresp'[h].producers) :
                      LET node == hresp'[h].producers[i]
                          id == peerInfo[node.peer].id
                      IN  /\ Len(node.tombstones) = Len(node.topics)
                          /\ Len(node.topics) = Cardinality(TopicsOf(registrationMap, id))
                          /\ {node.topics[j] : j \in 1..Len(node.topics)}
                                = TopicsOf(registrationMap, id)
                          /\ \A j \in 1..Len(node.topics) :
                                node.tombstones[j]
                                    <=> \E e \in EntriesUnder(registrationMap,
                                                              TopicKey(node.topics[j])) :
                                            ProducerId(e) = id /\ Hidden(e)
      ]_vars

\* C17: at the step in which /topic/delete?topic=T returns 200, the store
\* holds no ("channel",T,*) and no ("topic",T,"") registration, whatever the
\* other goroutines did while the handler ran.
C17_TopicGoneWhenDeleteReturns ==
    [][\A h \in Https :
          ((DeleteTopicFind(h) \/ \E r \in hregs[h] : DeleteTopicTopic(h, r))
              /\ hpc'[h] = "responded")
              => \A k \in DOMAIN registrationMap' :
                    ~(k.Category \in {"channel", "topic"} /\ k.Key = hreq[h].topic)
      ]_vars

\* map m2 is map m with key k added, empty, if it was missing
WithKey(m, m2, k) ==
    /\ DOMAIN m2 = DOMAIN m \cup {k}
    /\ \A x \in DOMAIN m : m2[x] = m[x]
    /\ k \notin DOMAIN m => m2[k] = << >>

\* C18: /channel/create for valid (T,C) adds ("channel",T,C) and then
\* ("topic",T,""), each empty if it was missing, and changes nothing else;
\* /channel/delete for valid (T,C) answers 404 CHANNEL_NOT_FOUND and leaves
\* the store as it is when ("channel",T,C) does not exist, and otherwise
\* removes that one key, every other registration (("topic",T,"") and its
\* producers included) staying as it was, and returns 200.
C18_ChannelCreateDelete ==
    [][\A h \in Https :
          /\ \A req \in Requests("/channel/create") :
                (doCreateChannel(h, req) /\ GetTopicChannelArgsErr(req) = "")
                    => /\ WithKey(registrationMap, registrationMap',
                                  ChannelKey(req.topic, req.channel))
                       /\ hpc'[h] = "create_channel_topic" /\ hreq'[h] = req
          /\ CreateChannelTopic(h)
                => /\ WithKey(registrationMap, registrationMap', TopicKey(hreq[h].topic))
                   /\ hresp'[h] = Ok200 /\ hpc'[h] = "responded"
          /\ \A req \in Requests("/channel/delete") :
                (doDeleteChannel(h, req) /\ GetTopicChannelArgsErr(req) = "")
                    => /\ registrationMap' = registrationMap
                       /\ IF ChannelKey(req.topic, req.channel) \in DOMAIN registrationMap
                          THEN /\ hpc'[h] = "delete_channel"
                               /\ hregs'[h] = {ChannelKey(req.topic, req.channel)}
                          ELSE /\ hpc'[h] = "responded"
                               /\ hresp'[h] = Err(404, "CHANNEL_NOT_FOUND")
          /\ \A r \in hregs[h] :
                DeleteChannel(h, r)
                    => /\ r = ChannelKey(hreq[h].topic, hreq[h].channel)
                       /\ DOMAIN registrationMap' = DOMAIN registrationMap \ {r}
                       /\ \A k \in DOMAIN registrationMap' : registrationMap'[k] = registrationMap[k]
                       /\ hresp'[h] = Ok200 /\ hpc'[h] = "responded"
      ]_vars

\* a producer of topic t was in the middle of REGISTER t c, its entry under
\* ("channel",t,c) added, when /channel/delete removed that registration and
\* returned: the topic is still registered with the producer
C18_Witness ==
    \E h \in Https, c \in Conns :
        /\ hpc[h] = "responded" /\ hresp[h] = Ok200
        /\ pc[c] = "reg_topic" /\ cmd[c].params = <<T1, Ch1>>
        /\ ChannelKey(T1, Ch1) \notin DOMAIN registrationMap
        /\ PeersUnder(registrationMap, TopicKey(T1)) = {c}

\* /channel/delete for a channel that is not registered answered 404 while
\* the topic is registered with a producer
C18_WitnessNotFound ==
    \E h \in Https, c \in Conns :
        /\ hpc[h] = "responded" /\ hresp[h] = Err(404, "CHANNEL_NOT_FOUND")
        /\ PeersUnder(registrationMap, TopicKey(T1)) = {c}

\* what a goroutine inside the store sees of the map: the keys and, for each,
\* the producers listed, in order
Structure(m) == [k \in DOMAIN m |-> [i \in 1..Len(m[k]) |-> m[k][i].peer]]

\* the map after write operation op as one step, the way the specifications
\* above take it
AsOneStep(m, op) ==
    IF op.name = "AddRegistration" THEN AddRegistration(m, op.key)
    ELSE IF op.name = "AddProducer" THEN AddProducer(m, op.key, NewProducer(op.peer))
    ELSE IF op.name = "RemoveProducer" THEN RemoveProducer(m, op.key, remoteAddr[op.peer])
    ELSE RemoveRegistration(m, op.key)

\* while a write operation is inside its critical section no other operation
\* is inside its own, and what an operation has read is still what the map holds
Exclusive ==
    \A w \in Workers :
        /\ (Inside(w) /\ ops[w].name \in WriteOps)
              => /\ mu.writer = w
                 /\ \A v \in Workers \ {w} : ~Inside(v)
        /\ (Inside(w) /\ ops[w].name \notin WriteOps) => w \in mu.readers /\ mu.writer = 0
        /\ ops[w].pc = "read" => Structure(ops[w].seen) = Structure(registrationMap)

\* C19: the map is guarded by one readers-writer lock: no write operation
\* (AddRegistration, AddProducer, RemoveProducer, RemoveRegistration) is
\* inside its critical section while any other operation, read or write, is
\* inside its own; so what an operation read of the map is what the map holds
\* until the operation leaves, and a write operation changes the map as if
\* it were a single step.
C19_StoreOperationsAtomic ==
    /\ []Exclusive
    /\ [][\A w \in Workers :
             StoreWrite(w) => registrationMap' = AsOneStep(registrationMap, ops[w])
         ]_vars

\* an AddProducer that added its producer is inside its critical section
\* while one goroutine has finished a read operation and another is waiting
\* at RLock
C19_Witness ==
    \E w, v, u \in Workers :
        /\ ops[w].name = "AddProducer" /\ ops[w].pc = "written" /\ mu.writer = w
        /\ Structure(registrationMap) # Structure(ops[w].seen)
        /\ ops[v].name \in ReadOps /\ ops[v].pc = "done"
        /\ ops[u].pc = "idle"

\* C20: every write of a producer's tombstoned and tombstonedAt fields is
\* made by a goroutine that holds the store's lock, for reading or writing.
C20_TombstoneWrittenUnderLock ==
    [][\A w \in Workers :
          (TombstoneWrite(w) /\ registrationMap' # registrationMap)
              => (w \in mu.readers \/ mu.writer = w)
      ]_vars

\* the producer of entry e has not sent IDENTIFY or PING within the timeout
Stale(e) == now - peerInfo[e.peer].lastUpdate > InactiveProducerTimeout

\* the PeerInfo pointers doNodes keeps of the producers it found
NodesKept(h) == {hnodes[h].producers[i] : i \in 1..Len(hnodes[h].producers)}

\* C21: liveness is applied when a query filters, and nowhere else.  A producer
\* whose last IDENTIFY or PING is older than InactiveProducerTimeout is left
\* out by /lookup and by /nodes, one within the timeout (and not tombstoned,
\* for /lookup) is listed; PING makes the producer fresh again; and an entry
\* leaves a registration only by the disconnect cleanup of its own connection,
\* never by a query or by the passing of time.
C21_LivenessAtQueryTime ==
    [][/\ \A h \in Https :
             /\ LookupProducers(h)
                   => \A e \in EntriesUnder(registrationMap, TopicKey(hreq[h].topic)) :
                         /\ Stale(e) => e.peer \notin Listed(hresp'[h])
                         /\ (~Stale(e) /\ ~Hidden(e)) => e.peer \in Listed(hresp'[h])
             /\ (\E req \in LiveRequests : doNodes(h, req))
                   => \A e \in EntriesUnder(registrationMap, ClientKey) :
                         Stale(e) <=> e.peer \notin {hnodes'[h].producers[i] :
                                                        i \in 1..Len(hnodes'[h].producers)}
             /\ NodesReturn(h)
                   => {hresp'[h].producers[i].peer : i \in 1..Len(hresp'[h].producers)}
                         = NodesKept(h)
       /\ \A c \in Conns :
             /\ (\E line \in LiveLines, sendOk \in BOOLEAN : PING(c, line, sendOk))
                   => (peerInfo[c] # NULL => peerInfo'[c].lastUpdate = now)
             /\ \A k \in DOMAIN registrationMap :
                   (c \in PeersUnder(registrationMap, k) /\ c \notin PeersUnder(registrationMap', k))
                       => /\ pc[c] = "cleanup"
                          /\ k \in regs[c]
                          /\ CleanupRemove(c, k)
       /\ DOMAIN registrationMap' = DOMAIN registrationMap
      ]_vars

\* at the end of the clock two producers of t have their connections open and
\* are both in the store; the one that has just sent PING is listed by /lookup,
\* the one that is stale is left out
C21_Witness ==
    \E h \in Https, c, d \in Conns :
        /\ hpc[h] = "responded" /\ hresp[h].code = 200
        /\ pc[c] = "read" /\ pc[d] = "read"
        /\ {c, d} \subseteq PeersUnder(registrationMap, TopicKey(T1))
        /\ {c, d} \subseteq PeersUnder(registrationMap, ClientKey)
        /\ now - peerInfo[c].lastUpdate > InactiveProducerTimeout
        /\ peerInfo[d].lastUpdate = now /\ now = MaxTime
        /\ hresp[h].channels = {}
        /\ hresp[h].producers = <<d>>

\* the same for /nodes, once the handler has filtered what it found
C21_WitnessNodes ==
    \E h \in Https, c, d \in Conns :
        /\ hpc[h] = "nodes_producers"
        /\ pc[c] = "read" /\ pc[d] = "read"
        /\ {c, d} \subseteq PeersUnder(registrationMap, ClientKey)
        /\ now - peerInfo[c].lastUpdate > InactiveProducerTimeout
        /\ peerInfo[d].lastUpdate = now /\ now = MaxTime
        /\ hnodes[h].producers = <<d>>

\* the arguments the store's finders are called with
FindCategories == {"client", "topic", "channel"}
FindKeys == {Empty, T1, T2, Star}
FindSubKeys == {Empty, Ch1, ChE, Star}

\* the ids of a result of FindProducers
IdsOf(pp) == {remoteAddr[pp[i].peer] : i \in 1..Len(pp)}

\* C22: for every category, key and subkey ("*" in key or subkey matches any
\* value, the category is compared exactly), every result FindProducers can
\* return holds producers listed under the registrations FindRegistrations
\* returns for the same arguments, one for every id listed under them, and no
\* id twice.
C22_FindProducersMatchesFindRegistrations ==
    \A category \in FindCategories, key \in FindKeys, subkey \in FindSubKeys :
        LET found == FindRegistrations(registrationMap, category, key, subkey)
        IN  /\ \A k \in found :
                  /\ k.Category = category
                  /\ needFilter(key, subkey) \/ k = Registration(category, key, subkey)
            /\ \A pp \in FindProducers(registrationMap, category, key, subkey) :
                  /\ \A i \in 1..Len(pp) :
                        /\ pp[i].key \in found
                        /\ pp[i].peer \in PeersUnder(registrationMap, pp[i].key)
                  /\ IdsOf(pp) = UNION {IdsUnder(registrationMap, k) : k \in found}
                  /\ \A i, j \in 1..Len(pp) :
                        remoteAddr[pp[i].peer] = remoteAddr[pp[j].peer] => i = j

\* /lookup?topic=* has answered with one producer, found by the wildcard scan
\* of FindProducers under two topic registrations that both list it
C22_Witness ==
    \E h \in Https, c \in Conns :
        /\ hpc[h] = "responded" /\ hresp[h].code = 200
        /\ hresp[h].producers = <<c>>
        /\ c \in PeersUnder(registrationMap, TopicKey(T1))
        /\ c \in PeersUnder(registrationMap, TopicKey(T2))
        /\ FindRegistrations(registrationMap, "topic", Star, Empty) = {TopicKey(T1), TopicKey(T2)}
        /\ \A pp \in FindProducers(registrationMap, "topic", Star, Empty) : Len(pp) = 1

\* the keys the protocol and the endpoints can name
StoreKeys ==
    {ClientKey, TopicKey(T1), TopicKey(T2), ChannelKey(T1, Ch1), ChannelKey(T1, ChE)}

\* C23: RemoveProducer(k, id) on a key that does not exist returns (false, 0)
\* and leaves the map as it is, the key still missing; on a key that exists it
\* leaves under k the entries of every other id in their order and none of
\* this id, returns whether the id was listed and the new length of the list,
\* keeps the key even when the list is empty, and leaves every other key alone.
C23_RemoveProducerFrame ==
    \A k \in StoreKeys \cup DOMAIN registrationMap, id \in UsedAddrs \cup {FreshAddr} :
        LET m == registrationMap
            after == RemoveProducer(m, k, id)
            removed == RemoveProducerRemoved(m, k, id)
            left == RemoveProducerLeft(m, k, id)
        IN  IF k \notin DOMAIN m
            THEN /\ after = m
                 /\ k \notin DOMAIN after
                 /\ ~removed
                 /\ left = 0
            ELSE /\ DOMAIN after = DOMAIN m
                 /\ \A x \in DOMAIN m \ {k} : after[x] = m[x]
                 /\ after[k] = SelectSeq(m[k], LAMBDA p : ProducerId(p) # id)
                 /\ removed <=> id \in IdsUnder(m, k)
                 /\ removed <=> Len(after[k]) < Len(m[k])
                 /\ left = Len(after[k])

\* after UNREGISTER t of the only producer of t, answered OK, the topic key is
\* still in the map with an empty list, and the producer is still listed
\* under "client" behind a producer that identified before it
C23_Witness ==
    \E c, d \in Conns :
        /\ pc[c] = "read" /\ reply[c] = OK
        /\ TopicKey(T1) \in DOMAIN registrationMap
        /\ registrationMap[TopicKey(T1)] = << >>
        /\ ClientKey \in DOMAIN registrationMap
        /\ registrationMap[ClientKey] = <<NewProducer(d), NewProducer(c)>>

\* every key of map m is in map m2 with the same list
Kept(m, m2) == \A x \in DOMAIN m : x \in DOMAIN m2 /\ m2[x] = m[x]

\* C24: AddRegistration of a key that exists, with or without producers,
\* leaves the store as it is, and applying it twice is applying it once;
\* /topic/create and both steps of /channel/create leave every existing key
\* with the list it had, and change nothing when their key exists.
C24_AddRegistrationIdempotent ==
    /\ [](\A k \in StoreKeys \cup DOMAIN registrationMap :
             LET once == AddRegistration(registrationMap, k)
             IN  /\ AddRegistration(once, k) = once
                 /\ k \in DOMAIN registrationMap => once = registrationMap
                 /\ k \in DOMAIN once
                 /\ DOMAIN once = DOMAIN registrationMap \cup {k}
                 /\ Kept(registrationMap, once))
    /\ [][\A h \in Https :
             /\ \A req \in Requests("/topic/create") :
                   doCreateTopic(h, req)
                       => /\ Kept(registrationMap, registrationMap')
                          /\ TopicKey(req.topic) \in DOMAIN registrationMap
                                => registrationMap' = registrationMap
             /\ \A req \in Requests("/channel/create") :
                   doCreateChannel(h, req)
                       => /\ Kept(registrationMap, registrationMap')
                          /\ ChannelKey(req.topic, req.channel) \in DOMAIN registrationMap
                                => registrationMap' = registrationMap
             /\ CreateChannelTopic(h)
                   => /\ Kept(registrationMap, registrationMap')
                      /\ TopicKey(hreq[h].topic) \in DOMAIN registrationMap
                            => registrationMap' = registrationMap
        ]_vars

\* /channel/create?topic=t&channel=c has made its first AddRegistration and is
\* about to make its second, while a connected producer is listed under the
\* channel key and under the topic key
C24_Witness ==
    \E h \in Https, c \in Conns :
        /\ hpc[h] = "create_channel_topic"
        /\ hreq[h].topic = T1 /\ hreq[h].channel = Ch1
        /\ pc[c] = "read"
        /\ PeersUnder(registrationMap, ChannelKey(T1, Ch1)) = {c}
        /\ PeersUnder(registrationMap, TopicKey(T1)) = {c}

\* the producer lists of the store and their concatenations, and the timeouts
\* and lifetimes the clock can tell apart
FilterLists ==
    {registrationMap[k] : k \in DOMAIN registrationMap}
    \cup {registrationMap[k] \o registrationMap[x] : k, x \in DOMAIN registrationMap}
FilterDurations == 0..MaxTime

C26_AcceptLoopAndExit ==
    /\ [][/\ \A c \in Conns :
                /\ (pc[c] = "none" /\ pc'[c] # "none")
                      => /\ pc'[c] = "read"
                         /\ \A d \in Conns \ {c} : pc'[d] = pc[d]
                         /\ "TCPServer" \in lookupd.waitGroup
                         /\ lookupd.tcpListener = "listening"
                /\ pc[c] # "none" => pc'[c] # "none"
          /\ TCPServerTemporary
                => /\ "TCPServer" \in lookupd'.waitGroup
                   /\ lookupd'.tcpListener = lookupd.tcpListener
                   /\ pc' = pc
          /\ (TCPServerError \/ TCPServerClosed) => "TCPServer" \notin lookupd'.waitGroup
          /\ \A g \in {"TCPServer", "Serve"} :
                g \notin lookupd.waitGroup => g \notin lookupd'.waitGroup
       ]_vars
    /\ []((/\ "TCPServer" \in lookupd.waitGroup
           /\ lookupd.tcpListener = "listening"
           /\ \E c \in Conns : pc[c] = "none")
             => ENABLED (\E c \in Conns, a \in UsedAddrs \cup {FreshAddr} : TCPServerAccept(c, a)))
    /\ (lookupd.tcpListener = "closed" /\ lookupd.httpListener = "closed")
          ~> (lookupd.waitGroup = {} /\ lookupd.exit = "returned")

\* Exit has returned; while it ran, the loop logged temporary failures and
\* handed every connection to a handler, one of which is still serving
C26_Witness ==
    /\ lookupd.exit = "returned"
    /\ lookupd.waitGroup = {}
    /\ lookupd.temporary = MaxAcceptErrors
    /\ \A c \in Conns : pc[c] # "none"
    /\ \E c \in Conns : pc[c] = "read"

\* C27, as claimed: every PeerInfo that a registration lists has a positive
\* tcp_port and http_port and a non-empty broadcast_address and version,
\* whatever integers the IDENTIFY bodies carried in their port fields.
C27_StoredPortsPositive ==
    \A k \in DOMAIN registrationMap : \A i \in 1..Len(registrationMap[k]) :
        LET info == peerInfo[registrationMap[k][i].peer]
        IN  /\ info.TCPPort > 0
            /\ info.HTTPPort > 0
            /\ info.BroadcastAddress # ""
            /\ info.Version # ""

\* C28, as claimed: the RemoveRegistration that ends an UNREGISTER of an
\* #ephemeral channel left without producers discards no producer that the
\* REGISTER of another connection has added under the channel key, so that
\* the other connection is listed under the key once both have replied.
C28_EphemeralRemovalKeepsOthers ==
    [][\A c \in Conns, sendOk \in BOOLEAN :
          UnregisterRemoveRegistration(c, sendOk)
              => LET key == ChannelKey(topicOf(cmd[c].params), channelOf(cmd[c].params))
                 IN  \A d \in Conns \ {c} :
                        d \in PeersUnder(registrationMap, key)
                            => d \in PeersUnder(registrationMap', key)
      ]_vars

\* no command and no request is between two of its store operations
Quiescent ==
    /\ \A c \in Conns : pc[c] \in {"none", "read", "closed", "cleanup", "done"}
    /\ \A h \in Https : hpc[h] \in {"none", "responded", "done"}

\* C29, as claimed: whenever no TCP command and no HTTP request is in the
\* middle of executing, every ("channel",T,C) registration of the store has
\* its ("topic",T,"") registration beside it.
C29_ChannelHasTopic ==
    Quiescent
        => \A k \in DOMAIN registrationMap :
              k.Category = "channel" => TopicKey(k.Key) \in DOMAIN registrationMap

\* C30, as claimed: the steps of POST /topic/delete?topic=T that write the store
\* leave every registration whose key differs from T, the ("client","","")
\* registration included, in the map with the list it had, for every T the
\* endpoint accepts.
C30_DeleteTopicOnlyItsKey ==
    [][\A h \in Https : \A r \in hregs[h] :
          (DeleteTopicChannel(h, r) \/ DeleteTopicTopic(h, r))
              => \A k \in DOMAIN registrationMap :
                    (k.Key # hreq[h].topic \/ k = ClientKey)
                        => /\ k \in DOMAIN registrationMap'
                           /\ registrationMap'[k] = registrationMap[k]
      ]_vars

\* producer x.peer was marked for x.key less than the tombstone lifetime ago
Fresh(x) == now - x.at < TombstoneLifetime

\* C31: once /topic/tombstone has marked producer p for topic T, no
\* /lookup?topic=T answered before TombstoneLifetime has elapsed since the mark
\* lists p, whatever PING, REGISTER or UNREGISTER commands p has sent on its
\* connection since (UNREGISTER T followed by REGISTER T included).
C31_TombstoneSurvivesCommands ==
    [][\A h \in Https :
          LookupProducers(h)
              => \A x \in marked :
                    (x.key = TopicKey(hreq[h].topic) /\ Fresh(x))
                        => x.peer \notin Listed(hresp'[h])
      ]_vars

\* C32: an IDENTIFY frame with any int32 body length, on a connection that has
\* not identified, ends either in a successful identification or in an
\* E_BAD_BODY reply and the close of the connection; the handler does not abort
\* and the goroutines of the other connections and of the HTTP server go on.
C32_IdentifyNeverAborts ==
    [][\A c \in Conns :
          \A line \in Lines("IDENTIFY"), body \in FrameBodies, sendOk \in BOOLEAN :
              (peerInfo[c] = NULL /\ IDENTIFY(c, line, body, sendOk))
                  => /\ \/ peerInfo'[c] # NULL /\ reply'[c] = IdentifyResponse
                        \/ /\ peerInfo'[c] = NULL
                           /\ reply'[c].code = "E_BAD_BODY"
                           /\ pc'[c] = "closed"
                     /\ \A d \in Conns \ {c} : pc'[d] = pc[d]
                     /\ hpc' = hpc
      ]_vars

\* C33: a producer's lastUpdate is written only by its own successful IDENTIFY
\* (with the time of the IDENTIFY) and by its own PING: REGISTER and UNREGISTER,
\* the commands of other connections, the HTTP requests and the clock leave it
\* as it was.  Hence /lookup omits a producer whose last IDENTIFY or PING is
\* older than the inactivity timeout, whatever it has registered since.
C33_LastUpdateWriters ==
    [][/\ \A c \in Conns :
             /\ (/\ peerInfo[c] # NULL /\ peerInfo'[c] # NULL
                 /\ peerInfo'[c].lastUpdate # peerInfo[c].lastUpdate)
                    => \E line \in UpdateLines, sendOk \in BOOLEAN : PING(c, line, sendOk)
             /\ (peerInfo[c] = NULL /\ peerInfo'[c] # NULL)
                    => /\ \E line \in UpdateLines, body \in TimeBodies, sendOk \in BOOLEAN :
                             IDENTIFY(c, line, body, sendOk)
                       /\ peerInfo'[c].lastUpdate = now
                       /\ reply'[c] = IdentifyResponse
             /\ (\E line \in UpdateLines, sendOk \in BOOLEAN :
                    REGISTER(c, line, sendOk) \/ UNREGISTER(c, line, sendOk))
                    => peerInfo' = peerInfo
             /\ (\E sendOk \in BOOLEAN : UnregisterTopic(c, sendOk)) => peerInfo' = peerInfo
       /\ \A h \in Https :
             LookupProducers(h)
                 => \A e \in EntriesUnder(registrationMap, TopicKey(hreq[h].topic)) :
                       Stale(e) => e.peer \notin Listed(hresp'[h])
      ]_vars

\* a producer that was not under topic u at the start has registered it (the
\* only command read so far), has sent no PING since its IDENTIFY at time 0,
\* and its connection is open; the one request served, a /lookup of u (nothing
\* is tombstoned), was answered after the inactivity timeout and lists nobody
C33_Witness ==
    \E h \in Https, c \in Conns \ {1} :
        /\ hpc[h] = "responded" /\ hresp[h].code = 200
        /\ hresp[h].producers = << >>
        /\ ncmds = MaxCmdsTime - 1
        /\ PeersUnder(registrationMap, TopicKey(T2)) = {1, c}
        /\ \A e \in EntriesUnder(registrationMap, TopicKey(T2)) : ~e.tombstoned /\ Stale(e)
        /\ pc[c] = "read" /\ reply[c] = OK
        /\ peerInfo[c].lastUpdate = 0

\* a /lookup of u is about to collect the producers while a producer that
\* registered u during the run is past the inactivity timeout
C33_WitnessPending ==
    \E h \in Https, c \in Conns \ {1} :
        /\ hpc[h] = "lookup_producers" /\ hreq[h].topic = T2
        /\ c \in PeersUnder(registrationMap, TopicKey(T2))
        /\ pc[c] = "read" /\ reply[c] = OK
        /\ now - peerInfo[c].lastUpdate > InactiveProducerTimeout

\* C34: the notification loop handles the admin actions in the order they were
\* sent on the channel, one at a time; a Post that fails is logged and the loop
\* goes on to wait for the next action; the loop returns once Exit has closed
\* the channel, every action sent having been handled, and never aborts.
C34_NotificationLoop ==
    /\ [](/\ nsqadmin.pc # "panic"
          /\ Len(nsqadmin.posted) <= Len(nsqadmin.sent)
          /\ nsqadmin.posted = SubSeq(nsqadmin.sent, 1, Len(nsqadmin.posted))
          /\ nsqadmin.pc \in {"range", "returned"} => nsqadmin.posted = nsqadmin.sent)
    /\ [][/\ \A result \in PostResults :
                handleAdminActionsPost(result)
                    => /\ nsqadmin'.pc = "range"
                       /\ nsqadmin'.posted = Append(nsqadmin.posted, nsqadmin.action)
                       /\ nsqadmin'.logged = nsqadmin.logged + (IF result = "ok" THEN 0 ELSE 1)
          /\ nsqadmin'.pc = "returned" => nsqadmin'.notifications = "closed"
         ]_vars
    /\ []((nsqadmin.pc = "range" /\ nsqadmin.notifications = "closed")
             => ENABLED handleAdminActionsReturn)

====
